---- MODULE Spec2Model ----
(***************************************************************************)
(* A model of webperf: the batch scenario scheduler of perf.ts and the     *)
(* result log of lib/results.ts.                                           *)
(*                                                                         *)
(* Strings that the code cuts, joins or sanitises (tags, scenario ids,     *)
(* directory names, paths) are sequences of one-character strings, so that *)
(* join, replace and toLowerCase are computed and two different inputs can *)
(* land on the same name.  Numbers that reach JSON are records             *)
(* [k, n, d]: a finite rational n/d, or +-Infinity, or JSON's null.        *)
(***************************************************************************)
EXTENDS Integers, Sequences, FiniteSets, TLC

\* ------------------------------------------------------------------ bounds
\* The clock runs in ticks; MaxClock is the last tick the model reaches.
MaxClock == 2
\* Ticks in one clock second (the code's clock has 1000 ms in a second).
TicksPerSecond == 2
\* saveResults calls in one behaviour of SpecLog.
MaxSaves == 2
\* Scenarios declared in settings.scenarios.
MaxScenarios == 3
\* Clock ticks during one batch.
MaxBatchClock == 1
\* The pids of the processes there can be.
MaxPids == 3
\* stopAll and ensurePortsFree calls made by commands in one behaviour.
MaxProcCalls == 2
\* The largest number of runs asked of runMeasurements.
MaxRuns == 2
\* Browsers launched in one behaviour.
MaxBrowsers == 2

VARIABLES
    clock,       \* Date.now(), in ticks
    summaries,   \* the summary.json files: path -> [call, doc]
    logs,        \* the .jsonl files: path -> sequence of [call, entry]
    saved,       \* history: one record per saveResults call, in call order
    args,        \* parseArgs(): [concurrency, runs]
    settings,    \* loadSettings(): [scenarios, maxConcurrency, notePrefix]
    mainPc,      \* where main's batch case stands
    filteredScenarios,
    concurrency,
    queue,       \* indices of filteredScenarios not yet started
    running,     \* indices of the promises in the running array
    task,        \* per index of filteredScenarios: [state, startedAt]
    batchResult,
    admitted,    \* history: the indices in the order runScenario was called
    thrown,      \* history: [index, message] of every throw of runMeasurements
    services,    \* config.services: the declared ports, in order
    registry,    \* the pid file: sequence of [name, port, pid]; <<>>: no file
    alive,       \* the pids of the processes that run
    procPc,      \* where the process manager stands
    procI,       \* the index of the loop it is in
    savedPids,   \* stopAll's savedPids
    portsInUse,  \* ensurePortsFree's portsInUse
    kills,       \* history: the kill attempts of the stopAll call in progress
    raised,      \* history: the errors that call has let through to its caller
    quiet,       \* history: nothing has been running since that call began
    probes,      \* history: what the ensurePortsFree call in progress was told
    stopCalls,   \* history: one record per finished stopAll call
    ensureCalls, \* history: one record per finished ensurePortsFree call
    mOptions,    \* runMeasurements: [runs, applyOverrides, configOverrides]
    mPc,         \* where the runMeasurements call stands
    mI,          \* its loop index (the override branch: the index of the await)
    mBrowser,    \* its browser; 0: none
    browsersLaunched,
    openBrowsers,
    mMetrics,    \* its metrics array
    auditLog,    \* history: the starts and ends of the audits of that call
    mPending,    \* the completion of its try block
    mCalls,
    pauses,            \* history: the runs after which the 2 s pause of this call began
    overrideLog,       \* history: the awaits of the override branch of this call that settled
    browserOf,         \* batch: per scenario, the browser its runMeasurements call holds (0: none)      \* history: the runMeasurements call that settled last
    compared,    \* history: the last compareResults call, [path1, path2, result]
    userSettings,   \* the settings file: the keys it sets (<<>>: none, or no file)
    externalConfig, \* the external config module: [loaded, defaultUrl, defaultRuns]
    argv,           \* the measure command line: [url, runsGiven, runsParsed]
    measured,        \* history: the options the measure command measured with
    cmd,               \* the service command that runs: "start", "start-measure" ("": none)
    cmdPc,             \* where main() stands in that command
    registryAtStart,   \* history: the pid file when startAllServices was entered
    startLog,          \* history: per declared service, what startService did
    waited,            \* history: per port waitForServices waited on, the outcome
    lookup,            \* history: the last port lookup (of waitForPort, or of stopAll's port phase)
    sigPc              \* where the SIGINT/SIGTERM handler stands ("none": no signal yet)

fsVars == <<clock, summaries, logs, saved>>
batchVars == <<args, settings, mainPc, filteredScenarios, concurrency, queue, running,
               task, batchResult, admitted, thrown>>
procVars == <<services, registry, alive, procPc, procI, savedPids, portsInUse, kills, raised,
              quiet, probes, stopCalls, ensureCalls>>
measVars == <<mOptions, mPc, mI, mBrowser, browsersLaunched, openBrowsers, mMetrics, auditLog,
              mPending, mCalls, pauses, overrideLog, browserOf>>
cmpVars == <<compared>>
cliVars == <<userSettings, externalConfig, argv, measured>>
cmdVars == <<cmd, cmdPc, registryAtStart, startLog, waited, lookup, sigPc>>
otherVars == <<procVars, measVars, cmpVars, cliVars, cmdVars>>
vars == <<clock, summaries, logs, saved, args, settings, mainPc, filteredScenarios,
          concurrency, queue, running, task, batchResult, admitted, thrown, procVars, measVars, cmpVars, cliVars,
          cmdVars>>

\* ----------------------------------------------------------------- numbers
Num(n) == [k |-> "num", n |-> n, d |-> 1]
PosInfinity == [k |-> "inf", n |-> 1, d |-> 0]
NegInfinity == [k |-> "inf", n |-> -1, d |-> 0]
JsonNull == [k |-> "null", n |-> 0, d |-> 1]
NaN == [k |-> "nan", n |-> 0, d |-> 0]

RECURSIVE GCD(_, _)
GCD(a, b) == IF b = 0 THEN a ELSE GCD(b, a % b)

Rat(n, d) == LET g == GCD(n, d) IN [k |-> "num", n |-> n \div g, d |-> d \div g]

RECURSIVE SumSeq(_)
SumSeq(s) == IF s = <<>> THEN 0 ELSE Head(s) + SumSeq(Tail(s))

\* An average in whole numbers.
averageTruncated(arr) == IF Len(arr) = 0 THEN Num(0) ELSE Num(SumSeq(arr) \div Len(arr))

\* An average without the guard for the empty array: 0 / 0 is NaN.
averageUnguarded(arr) ==
    IF Len(arr) = 0 THEN NaN ELSE Rat(SumSeq(arr), Len(arr))

\* average(arr): 0 for the empty array, else the sum over the length.
average(arr) == IF Len(arr) = 0 THEN Num(0) ELSE Rat(SumSeq(arr), Len(arr))

SeqRange(s) == {s[i] : i \in DOMAIN s}

\* Math.min(...scores) and Math.max(...scores): +-Infinity without arguments.
MathMin(arr) ==
    IF Len(arr) = 0 THEN PosInfinity
    ELSE Num(CHOOSE m \in SeqRange(arr) : \A x \in SeqRange(arr) : m <= x)
MathMax(arr) ==
    IF Len(arr) = 0 THEN NegInfinity
    ELSE Num(CHOOSE m \in SeqRange(arr) : \A x \in SeqRange(arr) : m >= x)

\* ------------------------------------------------------------------ samples
\* The MeasurementResult values one audit can yield.
SlowSample == [score |-> 50, fcp |-> 1500, lcp |-> 2500, tbt |-> 300, cls |-> 1, si |-> 2000]
FastSample == [score |-> 90, fcp |-> 1200, lcp |-> 2100, tbt |-> 150, cls |-> 0, si |-> 1800]

Field(metrics, f) == [i \in DOMAIN metrics |-> metrics[i][f]]

\* What runMeasurements returns for the samples `metrics`.
ReduceMetrics(metrics) ==
    LET scores == Field(metrics, "score") IN
    [ metrics |-> metrics,
      averages |-> [ score |-> average(scores),
                     fcp |-> average(Field(metrics, "fcp")),
                     lcp |-> average(Field(metrics, "lcp")),
                     tbt |-> average(Field(metrics, "tbt")),
                     cls |-> average(Field(metrics, "cls")),
                     si |-> average(Field(metrics, "si")) ],
      minScore |-> MathMin(scores),
      maxScore |-> MathMax(scores) ]

\* ------------------------------------------------------------------ strings
SafeChars == {"a", "b", "s", "A", "B", "0", "1", "2", "3", "4", "5", "6", "7", "8", "9", "-", "_"}

ToLowerChar(c) == CASE c = "A" -> "a" [] c = "B" -> "b" [] OTHER -> c

\* s.replace(/[^a-zA-Z0-9-_]/g, '-').toLowerCase()
Sanitize(s) == [i \in DOMAIN s |-> ToLowerChar(IF s[i] \in SafeChars THEN s[i] ELSE "-")]

RECURSIVE JoinWith(_, _)
\* parts.join(sep)
JoinWith(parts, sep) ==
    IF parts = <<>> THEN <<>>
    ELSE IF Len(parts) = 1 THEN parts[1]
    ELSE parts[1] \o sep \o JoinWith(Tail(parts), sep)

Digit(n) == CASE n = 0 -> "0" [] n = 1 -> "1" [] n = 2 -> "2" [] n = 3 -> "3" [] n = 4 -> "4"
              [] n = 5 -> "5" [] n = 6 -> "6" [] n = 7 -> "7" [] n = 8 -> "8" [] OTHER -> "9"

\* new Date().toISOString(): the full-resolution instant.
IsoString(now) == now

\* generateTimestamp(): the ISO string cut after the seconds, rendered here as
\* the two digits of the second.
generateTimestamp(now) ==
    LET sec == now \div TicksPerSecond IN <<Digit((sec \div 10) % 10), Digit(sec % 10)>>

\* -------------------------------------------------------------------- paths
ResultsPath == <<"results">>
JsonlLogPath == <<"results", "/", "measurements.jsonl">>
PathJoin(a, b) == a \o <<"/">> \o b

getLogPathForTag(tag) == PathJoin(PathJoin(ResultsPath, <<"tags">>), Sanitize(tag) \o <<".jsonl">>)
getLogPathForScenario(id) == PathJoin(PathJoin(ResultsPath, <<"scenarios">>), Sanitize(id) \o <<".jsonl">>)

\* ---------------------------------------------------------------------- JSON
\* JSON.stringify of a number: a non-finite number is written as null.
JsonNumber(x) == IF x.k = "num" THEN x ELSE JsonNull

\* JSON.parse(JSON.stringify(summary)): the document summary.json holds.
SummaryJson(summary) ==
    [f \in DOMAIN summary |->
        CASE f = "averages" -> [g \in DOMAIN summary.averages |-> JsonNumber(summary.averages[g])]
          [] f = "range" -> [g \in DOMAIN summary.range |-> JsonNumber(summary.range[g])]
          [] f = "rawScores" -> [i \in DOMAIN summary.rawScores |-> JsonNumber(summary.rawScores[i])]
          [] OTHER -> summary[f]]

\* ------------------------------------------------------------------- saving
\* The MeasurementSummary saveResults builds (note only when truthy).
BuildSummary(options, timestamp) ==
    LET base == [ url |-> options.url,
                  runs |-> options.runs,
                  timestamp |-> timestamp,
                  overridesApplied |-> options.overridesApplied,
                  averages |-> options.averages,
                  range |-> [minScore |-> options.minScore, maxScore |-> options.maxScore],
                  rawScores |-> options.rawScores ]
    IN IF options.note # "" THEN base @@ [note |-> options.note] ELSE base

\* The session directory's name.
SessionDirName(options, timestamp) ==
    IF Len(options.tags) > 0 /\ JoinWith(options.tags, <<"-">>) # <<>>
    THEN JoinWith(options.tags, <<"-">>) \o <<"-", "-">>
         \o (IF options.scenarioId # <<>> THEN options.scenarioId ELSE <<"a", "d", "h", "o", "c">>)
         \o <<"-", "-">> \o timestamp
    ELSE timestamp

SummaryPath(dirName) == PathJoin(PathJoin(ResultsPath, dirName), <<"summary.json">>)

\* The line appendToJsonlLog writes to every log of the call.
LogEntry(summary, options, now) ==
    LET e1 == SummaryJson(summary) @@ [loggedAt |-> IsoString(now)]
        e2 == IF Len(options.tags) > 0 THEN e1 @@ [tags |-> options.tags] ELSE e1
    IN IF options.scenarioId # <<>> THEN e2 @@ [scenarioId |-> options.scenarioId] ELSE e2

\* The log files appendToJsonlLog appends to, in the order of its appends.
LogTargets(options) ==
    <<JsonlLogPath>>
    \o [i \in DOMAIN options.tags |-> getLogPathForTag(options.tags[i])]
    \o (IF options.scenarioId # <<>> THEN <<getLogPathForScenario(options.scenarioId)>> ELSE <<>>)

\* writeFileSync in the place of appendFileSync: the file holds the one line.
AppendFileTruncating(fs, path, line) ==
    IF path \in DOMAIN fs THEN [fs EXCEPT ![path] = <<line>>] ELSE fs @@ (path :> <<line>>)

\* appendFileSync(path, line): creates the file when it is missing.
AppendFile(fs, path, line) ==
    IF path \in DOMAIN fs THEN [fs EXCEPT ![path] = Append(@, line)]
    ELSE fs @@ (path :> <<line>>)

RECURSIVE AppendAll(_, _, _, _)
\* The first n appends of `targets`, in order.
AppendAll(fs, targets, line, n) ==
    IF n = 0 \/ targets = <<>> THEN fs
    ELSE AppendAll(AppendFile(fs, Head(targets), line), Tail(targets), line, n - 1)

\* writeFileSync(path, doc): creates or replaces the file.
WriteFile(fs, path, doc) ==
    IF path \in DOMAIN fs THEN [fs EXCEPT ![path] = doc] ELSE fs @@ (path :> doc)

\* The file-system writes of one saveResults call, in order: 1 the summary
\* document, 2 the global log, then one per tag, then the scenario log.
NumWrites(options) == 1 + Len(LogTargets(options))

\* saveResults(options) at instant `now`, as call number `call`.  failAt = 0:
\* every write succeeds and the call returns; failAt = k > 0: write k throws
\* (EACCES, ENOSPC, ...), the writes before it stay and the call throws.
saveResults(sums, lgs, options, now, failAt, call) ==
    LET timestamp == generateTimestamp(now)
        dirName == SessionDirName(options, timestamp)
        summary == BuildSummary(options, timestamp)
        done == IF failAt = 0 THEN NumWrites(options) ELSE failAt - 1
        line == [call |-> call, entry |-> LogEntry(summary, options, now)]
    IN [ summaries |-> IF done >= 1
                       THEN WriteFile(sums, SummaryPath(dirName),
                                      [call |-> call, doc |-> SummaryJson(summary)])
                       ELSE sums,
         logs |-> AppendAll(lgs, LogTargets(options), line, IF done >= 1 THEN done - 1 ELSE 0),
         threw |-> failAt # 0,
         dirName |-> dirName,
         summary |-> summary ]

\* The content of a file JSON.parse throws on.
Unparsable == [k |-> "unparsable", n |-> 0, d |-> 1]

\* loadSummary(pathOrTimestamp): the parsed document, or JsonNull when the file
\* is missing.
loadSummary(sums, pathOrTimestamp) ==
    LET hasSep == \E i \in DOMAIN pathOrTimestamp : pathOrTimestamp[i] \in {"/", "\\"}
        summaryPath ==
            IF ~hasSep THEN SummaryPath(pathOrTimestamp)
            ELSE IF pathOrTimestamp[Len(pathOrTimestamp)] # "summary.json"
                 THEN PathJoin(pathOrTimestamp, <<"summary.json">>)
                 ELSE pathOrTimestamp
    IN IF summaryPath \in DOMAIN sums /\ sums[summaryPath].doc # Unparsable
       THEN sums[summaryPath].doc
       ELSE JsonNull

\* ------------------------------------------------------------------ listing
\* The UTF-16 code unit of a character of a directory name.
CharCode(c) ==
    CASE c = "-" -> 45 [] c = "0" -> 48 [] c = "1" -> 49 [] c = "2" -> 50 [] c = "3" -> 51
      [] c = "4" -> 52 [] c = "5" -> 53 [] c = "6" -> 54 [] c = "7" -> 55 [] c = "8" -> 56
      [] c = "9" -> 57 [] c = "A" -> 65 [] c = "B" -> 66 [] c = "_" -> 95 [] c = "a" -> 97
      [] c = "b" -> 98 [] c = "c" -> 99 [] c = "d" -> 100 [] c = "h" -> 104 [] c = "o" -> 111
      [] c = "s" -> 115 [] OTHER -> 46

RECURSIVE StringLess(_, _)
\* a < b as Array.prototype.sort() compares strings: by code units, a proper
\* prefix first.
StringLess(a, b) ==
    IF b = <<>> THEN FALSE
    ELSE IF a = <<>> THEN TRUE
    ELSE IF CharCode(Head(a)) # CharCode(Head(b)) THEN CharCode(Head(a)) < CharCode(Head(b))
    ELSE StringLess(Tail(a), Tail(b))

RECURSIVE SortReverse(_)
\* names.sort().reverse(): the greatest name first.
SortReverse(names) ==
    IF names = {} THEN <<>>
    ELSE LET top == CHOOSE x \in names : \A y \in names \ {x} : StringLess(y, x)
         IN <<top>> \o SortReverse(names \ {top})

\* readdirSync(resultsDir).filter(...): the directories that hold a summary.json.
SessionDirs(sums) == {SubSeq(path, 3, Len(path) - 2) : path \in DOMAIN sums}

\* listResults(): the directory names in the order they are printed.
listResults(sums) == SortReverse(SessionDirs(sums))

\* showLastResult(): the directory shown and its summary; JsonNull when there
\* is no result.
showLastResult(sums) ==
    LET dirs == SortReverse(SessionDirs(sums))
    IN IF Len(dirs) = 0 THEN JsonNull
       ELSE [lastDir |-> dirs[1], summary |-> loadSummary(sums, dirs[1])]

\* ------------------------------------------------------- the callers' inputs
\* The options perf.ts hands to saveResults for a measurement result.
SaveOptions(url, runs, result, overridesApplied, note, tags, scenarioId) ==
    [ url |-> url,
      runs |-> runs,
      averages |-> result.averages,
      minScore |-> result.minScore,
      maxScore |-> result.maxScore,
      rawScores |-> [i \in DOMAIN result.metrics |-> Num(result.metrics[i].score)],
      overridesApplied |-> overridesApplied,
      note |-> note,
      tags |-> tags,
      scenarioId |-> scenarioId ]

\* The calls of saveResults the commands make: measure with --runs -1 (no
\* audit runs, so no samples), and batch scenarios without tags, with two
\* tags, and with two tags that differ in case only.
Callers ==
    { [runs |-> -1, metrics |-> <<>>, note |-> "", tags |-> <<>>, scenarioId |-> <<>>],
      [runs |-> 2, metrics |-> <<SlowSample, FastSample>>, note |-> "base",
       tags |-> <<>>, scenarioId |-> <<"s", "1">>],
      [runs |-> 1, metrics |-> <<FastSample>>, note |-> "base",
       tags |-> <<<<"a">>, <<"b">>>>, scenarioId |-> <<"s", "1">>],
      [runs |-> 1, metrics |-> <<SlowSample>>, note |-> "",
       tags |-> <<<<"a">>, <<"A">>>>, scenarioId |-> <<"s", "2">>] }

CallerOptions(c) ==
    SaveOptions("u", c.runs, ReduceMetrics(c.metrics), FALSE, c.note, c.tags, c.scenarioId)

\* ------------------------------------------------------------- SpecLog
\* No process-manager operation is running and there is nothing to manage.
ProcIdle ==
    /\ services = <<>>
    /\ registry = <<>>
    /\ alive = {}
    /\ procPc = "idle"
    /\ procI = 1
    /\ savedPids = <<>>
    /\ portsInUse = FALSE
    /\ kills = <<>>
    /\ raised = <<>>
    /\ quiet = TRUE
    /\ probes = <<>>
    /\ stopCalls = <<>>
    /\ ensureCalls = <<>>

NoError == [step |-> "", run |-> 0]
NoCompletion == [kind |-> "", error |-> NoError, value |-> JsonNull]
NoOptions == [runs |-> 0, applyOverrides |-> FALSE, configOverrides |-> FALSE]

\* No runMeasurements call has been made.
MeasIdle ==
    /\ mOptions = NoOptions
    /\ mPc = "idle"
    /\ mI = 1
    /\ mBrowser = 0
    /\ browsersLaunched = 0
    /\ openBrowsers = {}
    /\ mMetrics = <<>>
    /\ auditLog = <<>>
    /\ mPending = NoCompletion
    /\ mCalls = <<>>
    /\ pauses = <<>>
    /\ overrideLog = <<>>
    /\ browserOf = [i \in 1 .. MaxScenarios |-> 0]

NoComparison == [path1 |-> <<>>, path2 |-> <<>>,
                 result |-> [loaded |-> FALSE, missing |-> <<>>, comparisons |-> <<>>]]

\* compareResults has not been called.
CmpIdle == compared = NoComparison

\* DEFAULT_SETTINGS of settings.ts (the two keys the measure command reads).
DEFAULT_SETTINGS == [defaultRuns |-> 5, defaultUrl |-> "https://example.com"]

\* The measure command has not been run: the default settings, no config.
CliIdle ==
    /\ userSettings = <<>>
    /\ externalConfig = [loaded |-> FALSE, defaultUrl |-> "", defaultRuns |-> 0]
    /\ argv = [url |-> "", runsGiven |-> FALSE, runsParsed |-> 0]
    /\ measured = [url |-> "", runs |-> 0]

NoLookup == [port |-> 0, owners |-> {}, failed |-> FALSE, answer |-> FALSE]

\* No service command has been run.
CmdIdle ==
    /\ cmd = ""
    /\ cmdPc = "none"
    /\ registryAtStart = <<>>
    /\ startLog = <<>>
    /\ waited = <<>>
    /\ lookup = NoLookup
    /\ sigPc = "none"

OthersIdle == ProcIdle /\ MeasIdle /\ CmpIdle /\ CliIdle /\ CmdIdle

BatchIdle ==
    /\ args = [concurrency |-> 0, runs |-> 1]
    /\ settings = [scenarios |-> <<>>, maxConcurrency |-> 0, notePrefix |-> ""]
    /\ mainPc = "idle"
    /\ filteredScenarios = <<>>
    /\ concurrency = 0
    /\ queue = <<>>
    /\ running = <<>>
    /\ task = <<>>
    /\ batchResult = <<>>
    /\ admitted = <<>>
    /\ thrown = <<>>

FsEmpty ==
    /\ clock = 0
    /\ summaries = <<>>
    /\ logs = <<>>
    /\ saved = <<>>

LogInit == FsEmpty /\ BatchIdle /\ OthersIdle

Tick ==
    /\ clock < MaxClock
    /\ clock' = clock + 1
    /\ UNCHANGED <<summaries, logs, saved>>
    /\ UNCHANGED batchVars
    /\ UNCHANGED otherVars

\* One saveResults call, from any caller.
Save(c, failAt) ==
    /\ mainPc = "idle"
    /\ Len(saved) < MaxSaves
    /\ LET call == Len(saved) + 1
           options == CallerOptions(c)
           r == saveResults(summaries, logs, options, clock, failAt, call)
       IN /\ summaries' = r.summaries
          /\ logs' = r.logs
          /\ saved' = Append(saved, [ call |-> call, options |-> options, at |-> clock,
                                      dirName |-> r.dirName, summary |-> r.summary,
                                      threw |-> r.threw ])
    /\ UNCHANGED clock
    /\ UNCHANGED batchVars
    /\ UNCHANGED otherVars

LogNext ==
    \/ Tick
    \/ \E c \in Callers : \E failAt \in 0 .. NumWrites(CallerOptions(c)) : Save(c, failAt)

SpecLog == LogInit /\ [][LogNext]_vars

\* ------------------------------------------------------------ batch inputs
\* Scenario i of settings.scenarios.  runs = 0 stands for "not set".
DeclaredScenario(i) ==
    [ id |-> <<"s", Digit(i)>>,
      note |-> IF i = 1 THEN "home" ELSE "",
      url |-> "u",
      runs |-> IF i = 2 THEN 2 ELSE 0,
      applyOverrides |-> FALSE,
      enabled |-> TRUE,
      tags |-> IF i = 1 THEN <<<<"a">>>> ELSE <<>> ]

\* The --concurrency argument (given, and what parseInt makes of it; 0 also
\* stands for NaN) with settings.maxConcurrency (0: not set).
ConcurrencyInputs ==
    { <<FALSE, 0, 0>>, <<FALSE, 0, 3>>, <<TRUE, 0, 3>>, <<TRUE, 2, 0>>, <<TRUE, -1, 0>> }

\* parseArgs: result.concurrency = parseInt(args[++i], 10) || 1; 0 when the
\* flag is absent (undefined).
ParseConcurrency(given, parsed) == IF ~given THEN 0 ELSE IF parsed # 0 THEN parsed ELSE 1

\* args.concurrency || settings.maxConcurrency || 1
ResolveConcurrency(argValue, maxConcurrency) ==
    IF argValue # 0 THEN argValue ELSE IF maxConcurrency # 0 THEN maxConcurrency ELSE 1

ErrorMessages == {"net::ERR_CONNECTION_REFUSED"}
FsErrorMessage == "EACCES: permission denied"
EmptyIso == -1

\* ------------------------------------------------------------ batch case
\* scenario.note ? (notePrefix ? `${notePrefix} ${scenario.note}` : scenario.note) : undefined
FullNote(notePrefix, note) ==
    IF note # "" THEN (IF notePrefix # "" THEN notePrefix \o " " \o note ELSE note) ELSE ""

\* scenario.runs || args.runs
ScenarioRuns(scenario, argRuns) == IF scenario.runs # 0 THEN scenario.runs ELSE argRuns

\* scenarios.filter(s => s.enabled !== false)
EnabledScenarios(scenarios) == SelectSeq(scenarios, LAMBDA s : s.enabled # FALSE)

RECURSIVE AdmitCountInclusive(_, _, _)
\* The admission loop with  running.length <= concurrency.
AdmitCountInclusive(queueLen, runningLen, c) ==
    IF runningLen <= c /\ queueLen > 0
    THEN 1 + AdmitCountInclusive(queueLen - 1, runningLen + 1, c) ELSE 0

RECURSIVE AdmitCount(_, _, _)
\* How often the body of  while (running.length < concurrency && queue.length > 0)  runs.
AdmitCount(queueLen, runningLen, c) ==
    IF runningLen < c /\ queueLen > 0 THEN 1 + AdmitCount(queueLen - 1, runningLen + 1, c) ELSE 0

\* runScenario up to its await: the started tasks get their scenarioStartedAt.
StartTasks(tk, started, now) ==
    [i \in DOMAIN tk |->
        IF i \in SeqRange(started) THEN [state |-> "measuring", startedAt |-> IsoString(now)]
        ELSE tk[i]]

\* for (const scenario of filteredScenarios) runScenario(scenario), without
\* the await: every scenario is started in the same turn.
ScheduleSequentialUnawaited(q, r, tk, adm, now) ==
    IF q = <<>>
    THEN [queue |-> q, running |-> r, task |-> tk, admitted |-> adm, pc |-> "complete"]
    ELSE [ queue |-> <<>>, running |-> r, task |-> StartTasks(tk, q, now),
           admitted |-> adm \o q, pc |-> "awaitScenario" ]

\* The sequential branch from one await to the next: the for loop starts the
\* next scenario and awaits it, or is finished.
ScheduleSequential(q, r, tk, adm, now) ==
    IF q = <<>>
    THEN [queue |-> q, running |-> r, task |-> tk, admitted |-> adm, pc |-> "complete"]
    ELSE [ queue |-> Tail(q), running |-> r, task |-> StartTasks(tk, <<Head(q)>>, now),
           admitted |-> Append(adm, Head(q)), pc |-> "awaitScenario" ]

\* The parallel branch with queue.pop() in the place of queue.shift().
ScheduleParallelPop(c, q, r, tk, adm, now) ==
    LET k == AdmitCount(Len(q), Len(r), c)
        started == [n \in 1 .. k |-> q[Len(q) + 1 - n]]
        q2 == SubSeq(q, 1, Len(q) - k)
        r2 == r \o started
    IN [ queue |-> q2, running |-> r2, task |-> StartTasks(tk, started, now),
         admitted |-> adm \o started,
         pc |-> IF Len(r2) > 0 THEN "awaitRace"
                ELSE IF Len(q2) > 0 THEN "spin" ELSE "complete" ]

\* The parallel branch with an if in the place of the inner while: one
\* admission per round.
ScheduleParallelOneAtATime(c, q, r, tk, adm, now) ==
    LET k == IF AdmitCount(Len(q), Len(r), c) > 0 THEN 1 ELSE 0
        started == SubSeq(q, 1, k)
        q2 == SubSeq(q, k + 1, Len(q))
        r2 == r \o started
    IN [ queue |-> q2, running |-> r2, task |-> StartTasks(tk, started, now),
         admitted |-> adm \o started,
         pc |-> IF Len(r2) > 0 THEN "awaitRace"
                ELSE IF Len(q2) > 0 THEN "spin" ELSE "complete" ]

\* The parallel branch with the outer loop  while (queue.length > 0): the
\* loop is left with scenarios still running.
ScheduleParallelLeavesEarly(c, q, r, tk, adm, now) ==
    LET k == IF Len(q) > 0 THEN AdmitCount(Len(q), Len(r), c) ELSE 0
        started == SubSeq(q, 1, k)
        q2 == SubSeq(q, k + 1, Len(q))
        r2 == r \o started
    IN [ queue |-> q2, running |-> r2, task |-> StartTasks(tk, started, now),
         admitted |-> adm \o started,
         pc |-> IF Len(q) = 0 THEN "complete"
                ELSE IF Len(r2) > 0 THEN "awaitRace" ELSE "spin" ]

\* The parallel branch from one await to the next: the inner while admits,
\* then main awaits Promise.race(running); with nothing running and the queue
\* not empty the outer while goes round without a suspension.
ScheduleParallel(c, q, r, tk, adm, now) ==
    LET k == AdmitCount(Len(q), Len(r), c)
        started == SubSeq(q, 1, k)
        q2 == SubSeq(q, k + 1, Len(q))
        r2 == r \o started
    IN [ queue |-> q2, running |-> r2, task |-> StartTasks(tk, started, now),
         admitted |-> adm \o started,
         pc |-> IF Len(r2) > 0 THEN "awaitRace"
                ELSE IF Len(q2) > 0 THEN "spin" ELSE "complete" ]

\* main's scheduling code from one await to the next.
Schedule(c, q, r, tk, adm, now) ==
    IF c = 1 THEN ScheduleSequential(q, r, tk, adm, now)
    ELSE ScheduleParallel(c, q, r, tk, adm, now)

\* batchResult.duration and .completedAt, set when the loop is left.
Completed(br, now) == [br EXCEPT !.duration = now - br.startedAt, !.completedAt = IsoString(now)]

\* main from a resumption to its next await: the scheduling code and, when the
\* loop is left, the completion of batchResult up to  await import(...).
MainStep(c, q, r, tk, adm, br, now) ==
    LET s == Schedule(c, q, r, tk, adm, now) IN
    /\ queue' = s.queue
    /\ running' = s.running
    /\ task' = s.task
    /\ admitted' = s.admitted
    /\ batchResult' = IF s.pc = "complete" THEN Completed(br, now) ELSE br
    /\ mainPc' = IF s.pc = "complete" THEN "saving" ELSE s.pc

\* case 'batch' up to the first await.
BatchStart ==
    /\ mainPc = "start"
    /\ IF Len(settings.scenarios) = 0
       THEN /\ mainPc' = "exit1"
            /\ UNCHANGED <<filteredScenarios, concurrency, queue, running, task, batchResult,
                           admitted>>
       ELSE LET filtered == EnabledScenarios(settings.scenarios)
                c == ResolveConcurrency(args.concurrency, settings.maxConcurrency)
                br == [ batchId |-> IsoString(clock), startedAt |-> IsoString(clock),
                        completedAt |-> EmptyIso, totalScenarios |-> Len(filtered),
                        completed |-> 0, failed |-> 0, duration |-> 0, results |-> <<>> ]
                tk == [i \in DOMAIN filtered |-> [state |-> "queued", startedAt |-> EmptyIso]]
                q == [i \in DOMAIN filtered |-> i]
            IN /\ filteredScenarios' = filtered
               /\ concurrency' = c
               /\ MainStep(c, q, <<>>, tk, <<>>, br, clock)
    /\ UNCHANGED <<args, settings, thrown>>
    /\ UNCHANGED fsVars
    /\ UNCHANGED otherVars

IndexOf(r, x) == IF x \in SeqRange(r) THEN CHOOSE i \in DOMAIN r : r[i] = x /\ \A j \in 1 .. i - 1 : r[j] # x ELSE 0

\* running.splice(running.indexOf(promise), 1): index -1 removes the last one.
Splice(r, x) ==
    LET at == IF IndexOf(r, x) = 0 THEN Len(r) ELSE IndexOf(r, x)
    IN IF r = <<>> THEN r ELSE SubSeq(r, 1, at - 1) \o SubSeq(r, at + 1, Len(r))

\* The summary runScenario puts into the scenario's outcome.
OutcomeSummary(scenario, runs, note, result, completedAt) ==
    [ url |-> scenario.url, runs |-> runs, timestamp |-> completedAt,
      overridesApplied |-> scenario.applyOverrides, note |-> note,
      averages |-> result.averages,
      range |-> [minScore |-> result.minScore, maxScore |-> result.maxScore],
      rawScores |-> [i \in DOMAIN result.metrics |-> Num(result.metrics[i].score)] ]

SuccessOutcome(scenario, summary, startedAt, completedAt) ==
    [scenario |-> scenario, summary |-> summary, startedAt |-> startedAt, completedAt |-> completedAt]

\* A catch block that drops err.message.
FailedOutcomeNoMessage(scenario, message, startedAt, completedAt) ==
    [scenario |-> scenario, error |-> "", startedAt |-> startedAt, completedAt |-> completedAt]

\* The catch block's outcome.
FailedOutcome(scenario, message, startedAt, completedAt) ==
    [scenario |-> scenario, error |-> message, startedAt |-> startedAt, completedAt |-> completedAt]

\* The try block without  batchResult.completed++.
PushSuccessUncounted(br, outcome) ==
    [br EXCEPT !.results = Append(@, outcome)]

\* The try block with  results.unshift(success).
PushSuccessFront(br, outcome) ==
    [br EXCEPT !.results = <<outcome>> \o @, !.completed = @ + 1]

\* batchResult.results.push(success); batchResult.completed++
PushSuccess(br, outcome) ==
    [br EXCEPT !.results = Append(@, outcome), !.completed = @ + 1]

\* The catch block without  batchResult.failed++.
PushFailureUncounted(br, outcome) ==
    [br EXCEPT !.results = Append(@, outcome)]

\* batchResult.results.push(failure); batchResult.failed++
PushFailure(br, outcome) ==
    [br EXCEPT !.results = Append(@, outcome), !.failed = @ + 1]

\* The promise of runScenario(i) settles: the task is resolved and the then
\* callback takes the promise out of running; main is resumed next.
Settle(i) ==
    /\ task' = [task EXCEPT ![i].state = "resolved"]
    /\ running' = IF concurrency = 1 THEN running ELSE Splice(running, i)
    /\ mainPc' = "resume"
    /\ UNCHANGED <<args, settings, filteredScenarios, concurrency, queue, admitted>>
    /\ UNCHANGED <<procVars, cmpVars, cliVars, cmdVars>>

\* runMeasurements of scenario i returns `runs` samples `sample`; runScenario
\* saves the result (write failAt of saveResults throws, 0: none) and records
\* the outcome.
ScenarioReturn(i, sample, failAt) ==
    /\ mainPc \in {"awaitScenario", "awaitRace"}
    /\ i \in DOMAIN task
    /\ task[i].state = "measuring"
    /\ LET scenario == filteredScenarios[i]
           runs == ScenarioRuns(scenario, args.runs)
           note == FullNote(settings.notePrefix, scenario.note)
           result == ReduceMetrics([k \in 1 .. runs |-> sample])
           completedAt == IsoString(clock)
           options == SaveOptions(scenario.url, runs, result, scenario.applyOverrides, note,
                                  scenario.tags, scenario.id)
           call == Len(saved) + 1
           r == saveResults(summaries, logs, options, clock, failAt, call)
           outcome == IF r.threw
                      THEN FailedOutcome(scenario, FsErrorMessage, task[i].startedAt, IsoString(clock))
                      ELSE SuccessOutcome(scenario,
                                          OutcomeSummary(scenario, runs, note, result, completedAt),
                                          task[i].startedAt, completedAt)
       IN /\ failAt <= NumWrites(options)
          /\ summaries' = r.summaries
          /\ logs' = r.logs
          /\ saved' = Append(saved, [ call |-> call, options |-> options, at |-> clock,
                                      dirName |-> r.dirName, summary |-> r.summary,
                                      threw |-> r.threw ])
          /\ batchResult' = IF r.threw THEN PushFailure(batchResult, outcome)
                             ELSE PushSuccess(batchResult, outcome)
    /\ Settle(i)
    /\ UNCHANGED <<clock, thrown>>

\* The same with the browser of the call left out of the picture.
MeasureReturn(i, sample, failAt) == ScenarioReturn(i, sample, failAt) /\ UNCHANGED measVars

\* runMeasurements of scenario i throws an error with message `message`.
ScenarioThrow(i, message) ==
    /\ mainPc \in {"awaitScenario", "awaitRace"}
    /\ i \in DOMAIN task
    /\ task[i].state = "measuring"
    /\ batchResult' = PushFailure(batchResult,
                                   FailedOutcome(filteredScenarios[i], message,
                                                 task[i].startedAt, IsoString(clock)))
    /\ thrown' = Append(thrown, [index |-> i, message |-> message])
    /\ Settle(i)
    /\ UNCHANGED fsVars

\* The same with the browser of the call left out of the picture.
MeasureThrow(i, message) == ScenarioThrow(i, message) /\ UNCHANGED measVars

\* main resumes from  await runScenario(scenario)  or  await Promise.race(running).
MainResume ==
    /\ mainPc = "resume"
    /\ MainStep(concurrency, queue, running, task, admitted, batchResult, clock)
    /\ UNCHANGED <<args, settings, filteredScenarios, concurrency, thrown>>
    /\ UNCHANGED fsVars
    /\ UNCHANGED otherVars

\* The outer while of the parallel branch going round with nothing to admit
\* and nothing running: no await, no change of state.
Spin ==
    /\ mainPc = "spin"
    /\ UNCHANGED vars

\* JSON.stringify of batchResult: the summaries' non-finite numbers become null.
BatchJson(br) ==
    [br EXCEPT !.results =
        [i \in DOMAIN br.results |->
            IF "summary" \in DOMAIN br.results[i]
            THEN [br.results[i] EXCEPT !.summary = SummaryJson(@)]
            ELSE br.results[i]]]

BatchLogPath == [JsonlLogPath EXCEPT ![Len(JsonlLogPath)] = "measurements.batch.jsonl"]

\* join(tagsDir, `${safeTag}.batch.jsonl`)
BatchTagLogPath(tag) ==
    PathJoin(PathJoin(ResultsPath, <<"tags">>), Sanitize(tag) \o <<".batch.jsonl">>)

\* The logs saveBatchResult appends to, in the order of its appends: the main
\* batch log, then one per tag of the batch's tag filter.
BatchLogTargets(br) ==
    <<BatchLogPath>>
    \o (IF "tags" \in DOMAIN br
        THEN [i \in DOMAIN br.tags |-> BatchTagLogPath(br.tags[i])]
        ELSE <<>>)

\* saveBatchResult(br) at instant `now`.  failAt = 0: every append succeeds;
\* failAt = k > 0: append k throws and the appends before it stay.
saveBatchResult(lgs, br, now, failAt) ==
    LET line == [ call |-> 0,
                  entry |-> [type |-> "batch", loggedAt |-> IsoString(now)] @@ BatchJson(br) ]
        done == IF failAt = 0 THEN Len(BatchLogTargets(br)) ELSE failAt - 1
    IN [logs |-> AppendAll(lgs, BatchLogTargets(br), line, done), threw |-> failAt # 0]

\* saveBatchResult(batchResult) after  await import(...) (no --tag filter
\* here, so only the main batch log).  failAt = 1: the append throws and
\* main().catch ends the process with status 1.
SaveBatch(failAt) ==
    /\ mainPc = "saving"
    /\ logs' = saveBatchResult(logs, batchResult, clock, failAt).logs
    /\ mainPc' = IF failAt = 0 THEN "done" ELSE "exit1"
    /\ UNCHANGED <<clock, summaries, saved>>
    /\ UNCHANGED <<args, settings, filteredScenarios, concurrency, queue, running, task,
                   batchResult, admitted, thrown>>
    /\ UNCHANGED otherVars

\* The batch command starts on the last tick of a clock second, with empty
\* result files.
BatchInit ==
    /\ clock = TicksPerSecond - 1
    /\ summaries = <<>>
    /\ logs = <<>>
    /\ saved = <<>>
    /\ \E n \in 1 .. MaxScenarios, disabled \in {0, 1}, ci \in ConcurrencyInputs :
         /\ args = [concurrency |-> ParseConcurrency(ci[1], ci[2]), runs |-> 1]
         /\ settings = [ scenarios |-> [i \in 1 .. n |->
                                          [DeclaredScenario(i) EXCEPT !.enabled = (i # disabled)]],
                         maxConcurrency |-> ci[3], notePrefix |-> "" ]
    /\ mainPc = "start"
    /\ filteredScenarios = <<>>
    /\ concurrency = 0
    /\ queue = <<>>
    /\ running = <<>>
    /\ task = <<>>
    /\ batchResult = <<>>
    /\ admitted = <<>>
    /\ thrown = <<>>
    /\ OthersIdle

\* Time passes while main awaits a measurement.
BatchTick ==
    /\ mainPc \in {"awaitScenario", "awaitRace"}
    /\ clock < TicksPerSecond - 1 + MaxBatchClock
    /\ clock' = clock + 1
    /\ UNCHANGED <<summaries, logs, saved>>
    /\ UNCHANGED batchVars
    /\ UNCHANGED otherVars

BatchNext ==
    \/ BatchTick
    \/ BatchStart
    \/ \E i \in 1 .. MaxScenarios, sample \in {FastSample}, failAt \in {0, 2} :
         MeasureReturn(i, sample, failAt)
    \/ \E i \in 1 .. MaxScenarios, message \in ErrorMessages : MeasureThrow(i, message)
    \/ MainResume
    \/ Spin
    \/ \E failAt \in {0, 1} : SaveBatch(failAt)

SpecBatch == BatchInit /\ [][BatchNext]_vars

\* ------------------------------------------------------------- SpecAppend
\* The tag filters of the batches that are saved: none, and --tag a.
BatchFilters == {<<>>, <<<<"a">>>>}

\* The BatchResult of a finished batch of one scenario, which failed.
LoggedBatch(filter) ==
    LET outcome == FailedOutcome(DeclaredScenario(1), FsErrorMessage, IsoString(0), IsoString(0))
        br == [ batchId |-> IsoString(0), startedAt |-> IsoString(0),
                completedAt |-> IsoString(0), totalScenarios |-> 1, completed |-> 0,
                failed |-> 1, duration |-> 0, results |-> <<outcome>> ]
    IN IF Len(filter) > 0 THEN br @@ [tags |-> filter] ELSE br

\* The calls so far that wrote to a log: those of saveResults and the lines of
\* the main batch log.
WriterCalls == Len(saved) + (IF BatchLogPath \in DOMAIN logs THEN Len(logs[BatchLogPath]) ELSE 0)

\* One saveResults call, from any caller.
AppendSave(c, failAt) ==
    /\ WriterCalls < MaxSaves
    /\ Save(c, failAt)

\* One saveBatchResult call, of a batch run with tag filter `filter`.
AppendBatch(filter, failAt) ==
    /\ mainPc = "idle"
    /\ WriterCalls < MaxSaves
    /\ failAt <= Len(BatchLogTargets(LoggedBatch(filter)))
    /\ logs' = saveBatchResult(logs, LoggedBatch(filter), clock, failAt).logs
    /\ UNCHANGED <<clock, summaries, saved>>
    /\ UNCHANGED batchVars
    /\ UNCHANGED otherVars

\* The writers of the log files: saveResults and saveBatchResult, in any order.
AppendNext ==
    \/ Tick
    \/ \E c \in Callers : \E failAt \in 0 .. NumWrites(CallerOptions(c)) : AppendSave(c, failAt)
    \/ \E filter \in BatchFilters, failAt \in 0 .. 2 : AppendBatch(filter, failAt)

SpecAppend == LogInit /\ [][AppendNext]_vars

\* -------------------------------------------------------- process manager
Pids == 1 .. MaxPids

\* The port process `pid` listens on: odd pids on port 1, even pids on port 2.
PortOf(pid) == 2 - (pid % 2)

\* The processes of another user, which this user may not signal.
Foreign(pid) == pid % 3 = 0

\* A line of the pid file, as startProcess pushes it.
RunningProcess(pid) == [name |-> "svc", port |-> PortOf(pid), pid |-> pid]

\* findProcess('port', port): the processes that hold the port.
FindOnPort(processes, port) == {pid \in processes : PortOf(pid) = port}

\* isPortInUse with a catch block that answers true.
isPortInUseOptimistic(processes, port, lookupFails) ==
    IF lookupFails THEN TRUE ELSE FindOnPort(processes, port) # {}

\* isPortInUse(port): a failed lookup counts as "not in use".
isPortInUse(processes, port, lookupFails) ==
    IF lookupFails THEN FALSE ELSE FindOnPort(processes, port) # {}

\* The error treeKill hands to its callback ("": none).
TreeKillError(processes, pid) ==
    IF pid \notin processes THEN "ESRCH" ELSE IF Foreign(pid) THEN "EPERM" ELSE ""

\* killProcess(pid): resolves when treeKill reports no error or a
\* no-such-process error, rejects with any other error.
killProcess(processes, pid) ==
    LET err == TreeKillError(processes, pid) IN
    [ alive |-> IF err = "" THEN processes \ {pid} ELSE processes,
      settled |-> IF err = "" \/ err \in {"ESRCH", "No such process"} THEN "resolved"
                  ELSE "rejected",
      error |-> err ]

\* loadPids(): the parsed pid file, [] when there is none.
loadPids(file) == file

\* A clearPids that leaves the pid file.
clearPidsKeeps(file) == file

\* clearPids(): the pid file is removed.
clearPids(file) == <<>>

\* Where stopAll stands after the step that leaves it in `phase` about to
\* handle index i: its next await, or its return ("idle").  clear: clearPids()
\* runs in this step.
StopAllRest(phase, i, nSaved, nPorts) ==
    CASE phase = "kill" /\ i <= nSaved -> [pc |-> "kill", i |-> i, clear |-> FALSE]
      [] phase = "kill" /\ i > nSaved /\ nPorts > 0 -> [pc |-> "ports", i |-> 1, clear |-> TRUE]
      [] phase = "kill" /\ i > nSaved /\ nPorts = 0 -> [pc |-> "idle", i |-> 1, clear |-> TRUE]
      [] phase = "ports" /\ i <= nPorts -> [pc |-> "ports", i |-> i, clear |-> FALSE]
      [] phase = "ports" /\ i > nPorts -> [pc |-> "wait", i |-> 1, clear |-> FALSE]
      [] phase = "wait" /\ i <= nPorts -> [pc |-> "wait", i |-> i, clear |-> FALSE]
      [] OTHER -> [pc |-> "idle", i |-> 1, clear |-> FALSE]

\* stopAll goes on to `phase`, index i, with pid list `pids`, kill history kl
\* and quiet flag q; when it returns the call is recorded.
StopAllGoto(phase, i, pids, kl, q) ==
    LET rest == StopAllRest(phase, i, Len(pids), Len(services))
        file == IF rest.clear THEN clearPids(registry) ELSE registry
    IN /\ procPc' = rest.pc
       /\ procI' = rest.i
       /\ registry' = file
       /\ stopCalls' = IF rest.pc = "idle"
                       THEN Append(stopCalls, [ quiet |-> q, raised |-> raised, kills |-> kl,
                                                registryBefore |-> pids, registryAfter |-> file ])
                       ELSE stopCalls

\* stopAll(config) up to its first await.
StopAllEnter ==
    /\ savedPids' = loadPids(registry)
    /\ kills' = <<>>
    /\ raised' = <<>>
    /\ quiet' = (alive = {})
    /\ StopAllGoto("kill", 1, loadPids(registry), <<>>, alive = {})
    /\ UNCHANGED <<services, alive>>

\* A command calls stopAll.
StopAllBegin ==
    /\ procPc = "idle"
    /\ Len(stopCalls) + Len(ensureCalls) < MaxProcCalls
    /\ StopAllEnter
    /\ UNCHANGED <<portsInUse, probes, ensureCalls>>
    /\ UNCHANGED fsVars
    /\ UNCHANGED batchVars
    /\ UNCHANGED measVars
    /\ UNCHANGED cmpVars
    /\ UNCHANGED cliVars

\* await killProcess(proc.pid) for the next saved pid; the catch block lets
\* nothing through.  After the last one clearPids() runs.
StopKill ==
    /\ procPc = "kill"
    /\ LET pid == savedPids[procI].pid
           r == killProcess(alive, pid)
           kl == Append(kills, [pid |-> pid, phase |-> "registry", settled |-> r.settled,
                                error |-> r.error])
       IN /\ alive' = r.alive
          /\ kills' = kl
          /\ StopAllGoto("kill", procI + 1, savedPids, kl, quiet)
    /\ UNCHANGED <<services, savedPids, portsInUse, raised, quiet, probes, ensureCalls>>
    /\ UNCHANGED fsVars
    /\ UNCHANGED batchVars
    /\ UNCHANGED measVars
    /\ UNCHANGED cmpVars
    /\ UNCHANGED cliVars

\* A port phase that only kills the processes the pid file named.
StopPortRegisteredOnly(lookupFails, pid) ==
    /\ procPc = "ports"
    /\ LET found == IF lookupFails THEN {}
                    ELSE {q \in FindOnPort(alive, services[procI]) :
                             \E n \in DOMAIN savedPids : savedPids[n].pid = q}
           r == killProcess(alive, pid)
           kl == IF found = {} THEN kills
                 ELSE Append(kills, [pid |-> pid, phase |-> "port", settled |-> r.settled,
                                     error |-> r.error])
       IN /\ IF found = {} THEN pid = 1 ELSE pid \in found
          /\ alive' = IF found = {} THEN alive ELSE r.alive
          /\ kills' = kl
          /\ StopAllGoto("ports", procI + 1, savedPids, kl, quiet)
    /\ UNCHANGED <<services, savedPids, portsInUse, raised, quiet, probes, ensureCalls>>
    /\ UNCHANGED fsVars
    /\ UNCHANGED batchVars
    /\ UNCHANGED measVars
    /\ UNCHANGED cmpVars
    /\ UNCHANGED cliVars

\* getProcessOnPort(port) and, when it finds a process, killProcess of the
\* first one of the list (here any of them); a failed lookup finds none.
StopPort(lookupFails, pid) ==
    /\ procPc = "ports"
    /\ LET found == IF lookupFails THEN {} ELSE FindOnPort(alive, services[procI])
           r == killProcess(alive, pid)
           kl == IF found = {} THEN kills
                 ELSE Append(kills, [pid |-> pid, phase |-> "port", settled |-> r.settled,
                                     error |-> r.error])
       IN /\ IF found = {} THEN pid = 1 ELSE pid \in found
          /\ alive' = IF found = {} THEN alive ELSE r.alive
          /\ kills' = kl
          /\ StopAllGoto("ports", procI + 1, savedPids, kl, quiet)
    /\ UNCHANGED <<services, savedPids, portsInUse, raised, quiet, probes, ensureCalls>>
    /\ UNCHANGED fsVars
    /\ UNCHANGED batchVars
    /\ UNCHANGED measVars
    /\ UNCHANGED cmpVars
    /\ UNCHANGED cliVars

\* await waitForPortFree(port, 5000): the port went free or the 5 s ran out.
StopWait ==
    /\ procPc = "wait"
    /\ StopAllGoto("wait", procI + 1, savedPids, kills, quiet)
    /\ UNCHANGED <<services, alive, savedPids, portsInUse, kills, raised, quiet, probes,
                   ensureCalls>>
    /\ UNCHANGED fsVars
    /\ UNCHANGED batchVars
    /\ UNCHANGED measVars
    /\ UNCHANGED cmpVars
    /\ UNCHANGED cliVars

\* The probe loop that keeps the last probe's answer.
EnsureLoopStepLastWins(inUse, flag, i, n) == [portsInUse |-> inUse, done |-> i = n]

\* One round of ensurePortsFree's loop after the probe answered inUse.
EnsureLoopStep(inUse, flag, i, n) ==
    IF inUse THEN [portsInUse |-> TRUE, done |-> TRUE]
    ELSE [portsInUse |-> flag, done |-> i = n]

\* A command calls ensurePortsFree; without services it returns at once.
EnsureBegin ==
    /\ procPc = "idle"
    /\ Len(stopCalls) + Len(ensureCalls) < MaxProcCalls
    /\ probes' = <<>>
    /\ portsInUse' = FALSE
    /\ procI' = 1
    /\ IF Len(services) = 0
       THEN /\ ensureCalls' = Append(ensureCalls, [ declared |-> services, probes |-> <<>>,
                                                    invoked |-> FALSE ])
            /\ procPc' = "idle"
       ELSE /\ procPc' = "probe"
            /\ UNCHANGED ensureCalls
    /\ UNCHANGED <<services, registry, alive, savedPids, kills, raised, quiet, stopCalls>>
    /\ UNCHANGED fsVars
    /\ UNCHANGED batchVars
    /\ UNCHANGED measVars
    /\ UNCHANGED cmpVars
    /\ UNCHANGED cliVars

\* await isPortInUse(port) for the next port; when the loop is left,
\* if (portsInUse) stopAll(config) is entered.
EnsureProbe(lookupFails) ==
    /\ procPc = "probe"
    /\ LET inUse == isPortInUse(alive, services[procI], lookupFails)
           step == EnsureLoopStep(inUse, portsInUse, procI, Len(services))
           told == Append(probes, inUse)
       IN /\ probes' = told
          /\ portsInUse' = step.portsInUse
          /\ IF ~step.done
             THEN /\ procI' = procI + 1
                  /\ UNCHANGED <<services, registry, alive, procPc, savedPids, kills, raised,
                                 quiet, stopCalls, ensureCalls>>
             ELSE /\ ensureCalls' = Append(ensureCalls, [ declared |-> services, probes |-> told,
                                                          invoked |-> step.portsInUse ])
                  /\ IF step.portsInUse
                     THEN StopAllEnter
                     ELSE /\ procPc' = "idle"
                          /\ procI' = 1
                          /\ UNCHANGED <<services, registry, alive, savedPids, kills, raised,
                                         quiet, stopCalls>>
    /\ UNCHANGED fsVars
    /\ UNCHANGED batchVars
    /\ UNCHANGED measVars
    /\ UNCHANGED cmpVars
    /\ UNCHANGED cliVars

\* A process ends by itself.
EnvExit(pid) ==
    /\ pid \in alive
    /\ alive' = alive \ {pid}
    /\ UNCHANGED <<services, registry, procPc, procI, savedPids, portsInUse, kills, raised,
                   quiet, probes, stopCalls, ensureCalls>>
    /\ UNCHANGED fsVars
    /\ UNCHANGED batchVars
    /\ UNCHANGED measVars
    /\ UNCHANGED cmpVars
    /\ UNCHANGED cliVars

\* A process is started from outside the tool.
EnvSpawn(pid) ==
    /\ pid \notin alive
    /\ alive' = alive \cup {pid}
    /\ quiet' = FALSE
    /\ UNCHANGED <<services, registry, procPc, procI, savedPids, portsInUse, kills, raised,
                   probes, stopCalls, ensureCalls>>
    /\ UNCHANGED fsVars
    /\ UNCHANGED batchVars
    /\ UNCHANGED measVars
    /\ UNCHANGED cmpVars
    /\ UNCHANGED cliVars

\* The declared services, the pid file an earlier invocation left (its
\* processes may have ended since) and the processes that run.
ProcInit ==
    /\ FsEmpty
    /\ BatchIdle
    /\ MeasIdle
    /\ CmpIdle
    /\ CliIdle
    /\ CmdIdle
    /\ services \in {<<>>, <<1>>, <<1, 2>>}
    /\ registry \in {<<>>, <<RunningProcess(1)>>, <<RunningProcess(3), RunningProcess(2)>>}
    /\ alive \in SUBSET Pids
    /\ procPc = "idle"
    /\ procI = 1
    /\ savedPids = <<>>
    /\ portsInUse = FALSE
    /\ kills = <<>>
    /\ raised = <<>>
    /\ quiet = TRUE
    /\ probes = <<>>
    /\ stopCalls = <<>>
    /\ ensureCalls = <<>>

ProcNext ==
    /\ \/ StopAllBegin
       \/ StopKill
       \/ \E lookupFails \in BOOLEAN, pid \in Pids : StopPort(lookupFails, pid)
       \/ StopWait
       \/ EnsureBegin
       \/ \E lookupFails \in BOOLEAN : EnsureProbe(lookupFails)
       \/ \E pid \in Pids : EnvExit(pid)
       \/ \E pid \in Pids : EnvSpawn(pid)
    /\ UNCHANGED cmdVars

SpecProc == ProcInit /\ [][ProcNext]_vars

\* --------------------------------------------------------- runMeasurements
\* The awaits of the override branch; applyCustomOverrides catches what the
\* configured function throws.
OverrideSteps == <<"newPage", "goto", "applyCustomOverrides", "pageClose">>

\* The loop with the test i < options.runs.
LoopContinuesExclusive(i, runs) == i < runs

\* for (let i = 1; i <= options.runs; i++)
LoopContinues(i, runs) == i <= runs

\* A finally block that runs after a return only.
FinallyBlockOnReturn(open, b, completion) ==
    IF completion.kind = "throw" THEN open ELSE open \ {b}

\* finally { await browser.close() }: for a return and for a throw alike.
FinallyBlock(open, b, completion) == open \ {b}

\* The loop test for index i with browser b, samples `metrics` and engine
\* history `log`: the next audit is started, or the averages are computed and
\* the return waits for the finally block.
RunLoop(i, runs, b, metrics, log) ==
    /\ mI' = i
    /\ IF LoopContinues(i, runs)
       THEN /\ mPc' = "audit"
            /\ auditLog' = Append(log, [ev |-> "start", run |-> i, browser |-> b,
                                        sample |-> JsonNull])
            /\ mPending' = NoCompletion
       ELSE /\ mPc' = "close"
            /\ auditLog' = log
            /\ mPending' = [kind |-> "return", error |-> NoError,
                            value |-> ReduceMetrics(metrics)]

\* A step inside the try block throws: the finally block is next.
ThrowInTry(step, run) ==
    /\ mPc' = "close"
    /\ mPending' = [kind |-> "throw", error |-> [step |-> step, run |-> run], value |-> JsonNull]

\* runMeasurements(options, config) up to await puppeteer.launch.
RunBegin(runs, applyOverrides, configOverrides) ==
    /\ mPc = "idle"
    /\ browsersLaunched < MaxBrowsers
    /\ mOptions' = [runs |-> runs, applyOverrides |-> applyOverrides,
                    configOverrides |-> configOverrides]
    /\ mPc' = "launch"
    /\ mI' = 1
    /\ mBrowser' = 0
    /\ mMetrics' = <<>>
    /\ auditLog' = <<>>
    /\ mPending' = NoCompletion
    /\ pauses' = <<>>
    /\ overrideLog' = <<>>
    /\ UNCHANGED <<browsersLaunched, openBrowsers, mCalls, browserOf>>
    /\ UNCHANGED fsVars
    /\ UNCHANGED batchVars
    /\ UNCHANGED procVars
    /\ UNCHANGED cmdVars
    /\ UNCHANGED cmpVars
    /\ UNCHANGED cliVars

\* puppeteer.launch settles; when it rejects no browser exists and the call
\* rejects, otherwise the try block is entered.
Launch(fails) ==
    /\ mPc = "launch"
    /\ IF fails
       THEN /\ mPc' = "idle"
            /\ mCalls' = << [ options |-> mOptions, browser |-> 0, leftOpen |-> FALSE,
                              audits |-> <<>>,
                              outcome |-> [kind |-> "throw",
                                           error |-> [step |-> "launch", run |-> 0],
                                           value |-> JsonNull] ] >>
            /\ UNCHANGED <<mI, mBrowser, browsersLaunched, openBrowsers, auditLog, mPending>>
       ELSE LET b == browsersLaunched + 1 IN
            /\ browsersLaunched' = b
            /\ openBrowsers' = openBrowsers \cup {b}
            /\ mBrowser' = b
            /\ UNCHANGED mCalls
            /\ IF mOptions.applyOverrides /\ mOptions.configOverrides
               THEN /\ mPc' = "override"
                    /\ mI' = 1
                    /\ UNCHANGED <<auditLog, mPending>>
               ELSE RunLoop(1, mOptions.runs, b, <<>>, <<>>)
    /\ UNCHANGED <<mOptions, mMetrics, pauses, overrideLog, browserOf>>
    /\ UNCHANGED fsVars
    /\ UNCHANGED batchVars
    /\ UNCHANGED procVars
    /\ UNCHANGED cmdVars
    /\ UNCHANGED cmpVars
    /\ UNCHANGED cliVars

\* applyCustomOverrides that lets the error of config.applyOverrides through.
OverrideOutcomeUncaught(step, throws) == IF throws THEN "throw" ELSE "next"

\* What follows an await of the override branch: an error of newPage, goto
\* or page.close leaves the try block, an error of config.applyOverrides is
\* caught and logged inside applyCustomOverrides.
OverrideOutcome(step, throws) ==
    IF throws /\ step # "applyCustomOverrides" THEN "throw" ELSE "next"

\* One await of the override branch settles (throws: what was awaited
\* rejected; for applyCustomOverrides: config.applyOverrides(page) did).
OverrideStep(throws) ==
    /\ mPc = "override"
    /\ overrideLog' = Append(overrideLog, [step |-> OverrideSteps[mI], threw |-> throws])
    /\ IF OverrideOutcome(OverrideSteps[mI], throws) = "throw"
       THEN /\ ThrowInTry(OverrideSteps[mI], 0)
            /\ UNCHANGED <<mI, auditLog>>
       ELSE IF mI < Len(OverrideSteps)
       THEN /\ mI' = mI + 1
            /\ UNCHANGED <<mPc, auditLog, mPending>>
       ELSE RunLoop(1, mOptions.runs, mBrowser, <<>>, <<>>)
    /\ UNCHANGED <<mOptions, mBrowser, browsersLaunched, openBrowsers, mMetrics, mCalls, pauses,
                   browserOf>>
    /\ UNCHANGED fsVars
    /\ UNCHANGED batchVars
    /\ UNCHANGED procVars
    /\ UNCHANGED cmdVars
    /\ UNCHANGED cmpVars
    /\ UNCHANGED cliVars

\* A pause after every run, the last one too.
PauseAfterEveryRun(i, runs) == TRUE

\* if (i < options.runs) await new Promise(r => setTimeout(r, 2000))
PauseAfter(i, runs) == i < runs

\* await runSingleMeasurement(browser, url, i, runs) settles: the sample is
\* pushed and the pause starts, or the loop is left, or the audit threw.
AuditEnd(sample, throws) ==
    /\ mPc = "audit"
    /\ LET log == Append(auditLog, [ev |-> "end", run |-> mI, browser |-> mBrowser,
                                    sample |-> IF throws THEN JsonNull ELSE sample])
           metrics == Append(mMetrics, sample)
       IN IF throws
          THEN /\ ThrowInTry("audit", mI)
               /\ auditLog' = log
               /\ UNCHANGED <<mI, mMetrics, pauses>>
          ELSE /\ mMetrics' = metrics
               /\ IF PauseAfter(mI, mOptions.runs)
                  THEN /\ mPc' = "pause"
                       /\ auditLog' = log
                       /\ pauses' = Append(pauses, mI)
                       /\ UNCHANGED <<mI, mPending>>
                  ELSE /\ RunLoop(mI + 1, mOptions.runs, mBrowser, metrics, log)
                       /\ UNCHANGED pauses
    /\ UNCHANGED <<mOptions, mBrowser, browsersLaunched, openBrowsers, mCalls, overrideLog,
                   browserOf>>
    /\ UNCHANGED fsVars
    /\ UNCHANGED batchVars
    /\ UNCHANGED procVars
    /\ UNCHANGED cmdVars
    /\ UNCHANGED cmpVars
    /\ UNCHANGED cliVars

\* The 2 s pause between runs is over: i++ and the loop test.
Pause ==
    /\ mPc = "pause"
    /\ RunLoop(mI + 1, mOptions.runs, mBrowser, mMetrics, auditLog)
    /\ UNCHANGED <<mOptions, mBrowser, browsersLaunched, openBrowsers, mMetrics, mCalls, pauses,
                   overrideLog, browserOf>>
    /\ UNCHANGED fsVars
    /\ UNCHANGED batchVars
    /\ UNCHANGED procVars
    /\ UNCHANGED cmdVars
    /\ UNCHANGED cmpVars
    /\ UNCHANGED cliVars

\* The finally block: browser.close(), then the call settles with the try
\* block's completion.
Close ==
    /\ mPc = "close"
    /\ LET open == FinallyBlock(openBrowsers, mBrowser, mPending) IN
       /\ openBrowsers' = open
       /\ mCalls' = << [ options |-> mOptions, browser |-> mBrowser,
                         leftOpen |-> mBrowser \in open, audits |-> auditLog,
                         outcome |-> mPending ] >>
    /\ mPc' = "idle"
    /\ mPending' = NoCompletion
    /\ UNCHANGED <<mOptions, mI, mBrowser, browsersLaunched, mMetrics, auditLog, pauses,
                   overrideLog, browserOf>>
    /\ UNCHANGED fsVars
    /\ UNCHANGED batchVars
    /\ UNCHANGED procVars
    /\ UNCHANGED cmdVars
    /\ UNCHANGED cmpVars
    /\ UNCHANGED cliVars

\* The caller of a runMeasurements call that returned saves the result:
\* overridesApplied is what it requested in options.applyOverrides (false
\* in measure, true in start-measure, scenario.applyOverrides in a batch).
SaveSession ==
    /\ mPc = "idle"
    /\ mCalls # <<>>
    /\ mCalls[1].outcome.kind = "return"
    /\ \A k \in DOMAIN saved : saved[k].call # mCalls[1].browser
    /\ LET call == mCalls[1].browser
           options == SaveOptions("u", mOptions.runs, mCalls[1].outcome.value,
                                  mOptions.applyOverrides, "", <<>>, <<>>)
           r == saveResults(summaries, logs, options, clock, 0, call)
       IN /\ summaries' = r.summaries
          /\ logs' = r.logs
          /\ saved' = Append(saved, [ call |-> call, options |-> options, at |-> clock,
                                      dirName |-> r.dirName, summary |-> r.summary,
                                      threw |-> r.threw ])
    /\ UNCHANGED clock
    /\ UNCHANGED measVars
    /\ UNCHANGED batchVars
    /\ UNCHANGED procVars
    /\ UNCHANGED cmdVars
    /\ UNCHANGED cmpVars
    /\ UNCHANGED cliVars

MeasInit == FsEmpty /\ BatchIdle /\ ProcIdle /\ MeasIdle /\ CmpIdle /\ CliIdle /\ CmdIdle

MeasNext ==
    \/ \E runs \in 0 .. MaxRuns, applyOverrides \in BOOLEAN, configOverrides \in BOOLEAN :
          RunBegin(runs, applyOverrides, configOverrides)
    \/ \E fails \in BOOLEAN : Launch(fails)
    \/ \E throws \in BOOLEAN : OverrideStep(throws)
    \/ \E sample \in {SlowSample, FastSample}, throws \in BOOLEAN : AuditEnd(sample, throws)
    \/ Pause
    \/ Close

SpecMeasure == MeasInit /\ [][MeasNext]_vars

\* One session: a command makes one runMeasurements call and saves what it
\* returned.
SessionNext ==
    \/ \E runs \in 0 .. MaxRuns, applyOverrides \in BOOLEAN, configOverrides \in BOOLEAN :
          mCalls = <<>> /\ RunBegin(runs, applyOverrides, configOverrides)
    \/ \E fails \in BOOLEAN : Launch(fails)
    \/ \E throws \in BOOLEAN : OverrideStep(throws)
    \/ \E sample \in {SlowSample, FastSample}, throws \in BOOLEAN : AuditEnd(sample, throws)
    \/ Pause
    \/ Close
    \/ SaveSession

SpecSession == MeasInit /\ [][SessionNext]_vars

\* ------------------------------------------------- the browsers of a batch
\* A launch that hands out a browser that is already open, when there is one.
LaunchBrowserReused(launched, open) ==
    IF open # {} THEN CHOOSE b \in open : TRUE ELSE launched + 1

\* const browser = await puppeteer.launch(...): a new Chrome process, held
\* in a local of the runMeasurements invocation.
LaunchBrowser(launched, open) == launched + 1

\* puppeteer.launch of the runMeasurements call of scenario i resolves.
PoolLaunch(i) ==
    /\ mainPc \in {"awaitScenario", "awaitRace"}
    /\ i \in DOMAIN task
    /\ task[i].state = "measuring"
    /\ browserOf[i] = 0
    /\ LET b == LaunchBrowser(browsersLaunched, openBrowsers) IN
       /\ browsersLaunched' = browsersLaunched + 1
       /\ openBrowsers' = openBrowsers \cup {b}
       /\ browserOf' = [browserOf EXCEPT ![i] = b]
    /\ UNCHANGED <<mOptions, mPc, mI, mBrowser, mMetrics, auditLog, mPending, mCalls, pauses,
                   overrideLog>>
    /\ UNCHANGED fsVars
    /\ UNCHANGED batchVars
    /\ UNCHANGED procVars
    /\ UNCHANGED cmpVars
    /\ UNCHANGED cliVars
    /\ UNCHANGED cmdVars

\* The measurement state a settling runMeasurements call of scenario i
\* leaves: its finally block has closed the browser it launched.
PoolClose(i, kind) ==
    /\ openBrowsers' = IF browserOf[i] = 0 THEN openBrowsers
                       ELSE FinallyBlock(openBrowsers, browserOf[i],
                                         [NoCompletion EXCEPT !.kind = kind])
    /\ UNCHANGED <<mOptions, mPc, mI, mBrowser, browsersLaunched, mMetrics, auditLog, mPending,
                   mCalls, pauses, overrideLog, browserOf>>

\* The runMeasurements call of scenario i returns after its audits.
PoolReturn(i, sample) ==
    /\ i \in DOMAIN task
    /\ browserOf[i] # 0
    /\ ScenarioReturn(i, sample, 0)
    /\ PoolClose(i, "return")

\* The runMeasurements call of scenario i throws: puppeteer.launch rejected,
\* or an audit threw and the finally block ran.
PoolThrow(i, message) ==
    /\ i \in DOMAIN task
    /\ ScenarioThrow(i, message)
    /\ PoolClose(i, "throw")

\* The batch command with the browsers of its measurements.
PoolNext ==
    \/ BatchStart
    \/ \E i \in 1 .. MaxScenarios : PoolLaunch(i)
    \/ \E i \in 1 .. MaxScenarios, sample \in {FastSample} : PoolReturn(i, sample)
    \/ \E i \in 1 .. MaxScenarios, message \in ErrorMessages : PoolThrow(i, message)
    \/ MainResume

SpecPool == BatchInit /\ [][PoolNext]_vars

\* ---------------------------------------------------------- compareResults
\* a - b and a < b for finite numbers.
RatSub(a, b) == Rat(a.n * b.d - b.n * a.d, a.d * b.d)
RatLess(a, b) == a.n * b.d < b.n * a.d

\* (diff / before) * 100: a division by 0 gives +-Infinity, 0 / 0 gives NaN.
PercentChange(diff, before) ==
    IF before.n = 0
    THEN IF diff.n > 0 THEN PosInfinity ELSE IF diff.n < 0 THEN NegInfinity ELSE NaN
    ELSE IF before.n > 0 THEN Rat(diff.n * before.d * 100, diff.d * before.n)
    ELSE Rat(-(diff.n * before.d * 100), diff.d * (-before.n))

\* The metrics in the order of the comparisons array.
ComparedMetrics == <<"score", "fcp", "lcp", "tbt", "cls", "si">>

\* An improved flag that reads every metric as higher-is-better.
ImprovedHigherIsBetter(metric, before, after) == RatLess(before, after)

\* improved: after > before for the score, after < before for the others.
Improved(metric, before, after) ==
    IF metric = "score" THEN RatLess(before, after) ELSE RatLess(after, before)

\* One entry of the comparisons array.
Comparison(metric, before, after) ==
    [ metric |-> metric,
      before |-> before,
      after |-> after,
      diff |-> RatSub(after, before),
      percentChange |-> PercentChange(RatSub(after, before), before),
      improved |-> Improved(metric, before, after) ]

\* A compareResults whose error always names path1.
compareResultsBlamesFirst(sums, path1, path2) ==
    LET summary1 == loadSummary(sums, path1)
        summary2 == loadSummary(sums, path2)
    IN IF summary1 = JsonNull \/ summary2 = JsonNull
       THEN [loaded |-> FALSE, missing |-> path1, comparisons |-> <<>>]
       ELSE [ loaded |-> TRUE, missing |-> <<>>,
              comparisons |-> [i \in DOMAIN ComparedMetrics |->
                                  Comparison(ComparedMetrics[i],
                                             summary1.averages[ComparedMetrics[i]],
                                             summary2.averages[ComparedMetrics[i]])] ]

\* compareResults(path1, path2): the path it could not load, or the
\* comparisons it prints.
compareResults(sums, path1, path2) ==
    LET summary1 == loadSummary(sums, path1)
        summary2 == loadSummary(sums, path2)
    IN IF summary1 = JsonNull THEN [loaded |-> FALSE, missing |-> path1, comparisons |-> <<>>]
       ELSE IF summary2 = JsonNull THEN [loaded |-> FALSE, missing |-> path2, comparisons |-> <<>>]
       ELSE [ loaded |-> TRUE, missing |-> <<>>,
              comparisons |-> [i \in DOMAIN ComparedMetrics |->
                                  Comparison(ComparedMetrics[i],
                                             summary1.averages[ComparedMetrics[i]],
                                             summary2.averages[ComparedMetrics[i]])] ]

\* The averages a stored summary can hold.
StoredAverages ==
    [ score : {Num(75), Num(85)},
      fcp : {Num(1200), Num(1500)},
      lcp : {Num(2100), Num(2500)},
      tbt : {Num(0), Num(150)},
      cls : {Rat(1, 10), Rat(1, 20)},
      si : {Num(1800), Num(2000)} ]

\* The document saveResults stores for these averages.
StoredSummary(averages, timestamp) ==
    SummaryJson(BuildSummary([ url |-> "u", runs |-> 1, overridesApplied |-> FALSE,
                               averages |-> averages, minScore |-> Num(70),
                               maxScore |-> Num(90), rawScores |-> <<Num(80)>>,
                               note |-> "" ], timestamp))

\* The sessions compareResults is asked about: 02 holds no JSON, 99 does not
\* exist.
ComparedPaths == {<<"0", "0">>, <<"0", "1">>, <<"0", "2">>, <<"9", "9">>}

\* Two sessions have been saved, one second apart; the summary of a third is
\* not JSON.
CompareInit ==
    /\ clock = 2 * TicksPerSecond
    /\ \E before \in StoredAverages, after \in StoredAverages :
          summaries = WriteFile(WriteFile(WriteFile(<<>>, SummaryPath(<<"0", "0">>),
                                          [call |-> 1, doc |-> StoredSummary(before, <<"0", "0">>)]),
                                SummaryPath(<<"0", "1">>),
                                [call |-> 2, doc |-> StoredSummary(after, <<"0", "1">>)]),
                                SummaryPath(<<"0", "2">>), [call |-> 0, doc |-> Unparsable])
    /\ logs = <<>>
    /\ saved = <<>>
    /\ BatchIdle
    /\ ProcIdle
    /\ MeasIdle
    /\ CmpIdle
    /\ CliIdle
    /\ CmdIdle

\* The compare command.
Compare(path1, path2) ==
    /\ compared' = [path1 |-> path1, path2 |-> path2,
                    result |-> compareResults(summaries, path1, path2)]
    /\ UNCHANGED fsVars
    /\ UNCHANGED batchVars
    /\ UNCHANGED procVars
    /\ UNCHANGED cmdVars
    /\ UNCHANGED measVars
    /\ UNCHANGED cliVars

CompareNext == \E path1 \in ComparedPaths, path2 \in ComparedPaths : Compare(path1, path2)

SpecCompare == CompareInit /\ [][CompareNext]_vars

\* ------------------------------------------------------ measure defaults
\* a || b for strings ("" also stands for undefined) and for numbers (0 also
\* stands for undefined and NaN).
OrUrl(a, b) == IF a # "" THEN a ELSE b
OrRuns(a, b) == IF a # 0 THEN a ELSE b

\* loadSettings(): { ...DEFAULT_SETTINGS, ...userSettings }
loadSettings(file) == file @@ DEFAULT_SETTINGS

\* loadConfig(): the default config, under the external one when there is one.
loadConfig(merged, external) ==
    LET defaultConfig == [ defaultUrl |-> OrUrl(merged.defaultUrl, "https://example.com"),
                           defaultRuns |-> OrRuns(merged.defaultRuns, 5) ]
    IN IF external.loaded
       THEN [ defaultUrl |-> OrUrl(merged.defaultUrl,
                                   OrUrl(external.defaultUrl, defaultConfig.defaultUrl)),
              defaultRuns |-> OrRuns(merged.defaultRuns,
                                     OrRuns(external.defaultRuns, defaultConfig.defaultRuns)) ]
       ELSE defaultConfig

\* parseArgs(): runs starts as merged.defaultRuns || 5; --runs n sets
\* parseInt(n) || 5; the first positional argument of measure is the url.
parseArgs(line, merged) ==
    [ url |-> line.url,
      runs |-> IF line.runsGiven THEN OrRuns(line.runsParsed, 5)
               ELSE OrRuns(merged.defaultRuns, 5) ]

\* case 'measure': the options handed to runMeasurements.
MeasureOptions(line, file, external) ==
    LET merged == loadSettings(file)
        config == loadConfig(merged, external)
        parsed == parseArgs(line, merged)
    IN [url |-> OrUrl(parsed.url, config.defaultUrl), runs |-> parsed.runs]

\* The measure command is run with some settings file, some external config
\* (or none) and some command line.
DefaultsInit ==
    /\ FsEmpty
    /\ BatchIdle
    /\ ProcIdle
    /\ MeasIdle
    /\ CmpIdle
    /\ userSettings \in { <<>>, [defaultUrl |-> "http://settings"], [defaultRuns |-> 3],
                           [defaultUrl |-> "http://settings", defaultRuns |-> 3],
                           [defaultUrl |-> ""], [defaultRuns |-> 0] }
    /\ externalConfig \in { [loaded |-> FALSE, defaultUrl |-> "", defaultRuns |-> 0],
                             [loaded |-> TRUE, defaultUrl |-> "http://localhost:3000",
                              defaultRuns |-> 7],
                             [loaded |-> TRUE, defaultUrl |-> "", defaultRuns |-> 0] }
    /\ argv \in [url : {"", "http://arg"}, runsGiven : BOOLEAN, runsParsed : {0, 2}]
    /\ measured = [url |-> "", runs |-> 0]
    /\ CmdIdle

\* main, case 'measure', up to the call of runMeasurements.
MeasureCommand ==
    /\ measured.runs = 0
    /\ measured' = MeasureOptions(argv, userSettings, externalConfig)
    /\ UNCHANGED <<userSettings, externalConfig, argv>>
    /\ UNCHANGED fsVars
    /\ UNCHANGED batchVars
    /\ UNCHANGED procVars
    /\ UNCHANGED cmdVars
    /\ UNCHANGED measVars
    /\ UNCHANGED cmpVars

SpecDefaults == DefaultsInit /\ [][MeasureCommand]_vars

\* ------------------------------------------- start and start-measure
\* What a lookup through isPortInUse saw and answered.
Lookup(processes, port, lookupFails) ==
    [ port |-> port,
      owners |-> IF lookupFails THEN {} ELSE FindOnPort(processes, port),
      failed |-> lookupFails,
      answer |-> isPortInUse(processes, port, lookupFails) ]

\* One turn of the loop of waitForPort: the probe, then the sleep and the
\* test of the timeout.
waitForPort(inUse, timedOut) ==
    IF inUse THEN "true" ELSE IF timedOut THEN "false" ELSE "again"

\* waitForServices that waits on every port and answers for the last one.
waitForServicesChecksAll(ready, i, n) ==
    IF i < n THEN "next" ELSE IF ready THEN "true" ELSE "false"

\* The loop of waitForServices after waitForPort returned `ready` for port
\* i of n: return false, return true, or wait on the next port.
waitForServices(ready, i, n) ==
    IF ~ready THEN "false" ELSE IF i < n THEN "next" ELSE "true"

\* start-measure that measures whatever waitForServices returned.
AfterWaitForServicesIgnored(ready) == "measure"

\* start-measure after waitForServices: if (!ready) { stopAll; exit(1) }.
AfterWaitForServices(ready) == IF ready THEN "measure" ELSE "aborting"

\* startProcess that saves the new entry alone.
startProcessOverwrites(file, port, pid) ==
    IF pid # 0 THEN <<[name |-> "svc", port |-> port, pid |-> pid]>> ELSE file

\* startProcess: if (child.pid) the pid file is loaded, the entry pushed and
\* the whole list saved (pid 0: spawn returned none).
startProcess(file, port, pid) ==
    IF pid # 0
    THEN Append(loadPids(file), [name |-> "svc", port |-> port, pid |-> pid])
    ELSE file

\* startService: a missing working directory is logged and nothing spawned.
startService(file, port, cwdExists, pid) ==
    IF ~cwdExists THEN file ELSE startProcess(file, port, pid)

\* main after a step of stopAll or ensurePortsFree: when the stopAll of the
\* abort path has returned, process.exit(1).
CmdResume ==
    /\ cmdPc' = IF cmdPc = "aborting" /\ procPc' = "idle" THEN "exit1" ELSE cmdPc
    /\ UNCHANGED <<cmd, registryAtStart, startLog, waited, lookup, sigPc>>

\* main, case 'start' or 'start-measure', up to its first await: with no
\* services it exits; start enters ensurePortsFree, start-measure
\* waitForPort(firstServicePort, 1000).
CmdBegin(command) ==
    /\ cmdPc = "none"
    /\ procPc = "idle"
    /\ cmd' = command
    /\ UNCHANGED <<registryAtStart, startLog, waited, lookup, sigPc>>
    /\ IF Len(services) # 0 /\ command = "start"
       THEN /\ cmdPc' = "ensure"
            /\ EnsureBegin
       ELSE /\ cmdPc' = IF Len(services) = 0 THEN "exit1" ELSE "precheck"
            /\ UNCHANGED procVars
            /\ UNCHANGED fsVars
            /\ UNCHANGED batchVars
            /\ UNCHANGED measVars
            /\ UNCHANGED cmpVars
            /\ UNCHANGED cliVars

\* start-measure: a turn of waitForPort(firstServicePort, 1000); services
\* that answer are measured as they are, otherwise ensurePortsFree is entered.
Precheck(lookupFails, timedOut) ==
    /\ cmdPc = "precheck"
    /\ LET port == services[1]
           outcome == waitForPort(isPortInUse(alive, port, lookupFails), timedOut)
       IN /\ lookup' = Lookup(alive, port, lookupFails)
          /\ UNCHANGED <<cmd, registryAtStart, startLog, waited, sigPc>>
          /\ IF outcome = "false"
             THEN /\ cmdPc' = "ensure"
                  /\ EnsureBegin
             ELSE /\ cmdPc' = IF outcome = "true" THEN "measure" ELSE cmdPc
                  /\ UNCHANGED procVars
                  /\ UNCHANGED fsVars
                  /\ UNCHANGED batchVars
                  /\ UNCHANGED measVars
                  /\ UNCHANGED cmpVars
                  /\ UNCHANGED cliVars

\* startAllServices, one declared service per step, after ensurePortsFree
\* returned: startService(service) spawns process `pid` (0: none).  After
\* the last one start stays up and start-measure enters waitForServices.
StartService(cwdExists, pid) ==
    /\ procPc = "idle"
    /\ cmdPc \in {"ensure", "startAll"}
    /\ LET i == Len(startLog) + 1
           port == services[i]
       IN /\ pid # 0 => cwdExists /\ pid \in Pids \ alive /\ PortOf(pid) = port
          /\ registryAtStart' = IF cmdPc = "ensure" THEN registry ELSE registryAtStart
          /\ startLog' = Append(startLog, [port |-> port, cwdExists |-> cwdExists, pid |-> pid])
          /\ registry' = startService(registry, port, cwdExists, pid)
          /\ alive' = IF pid # 0 THEN alive \cup {pid} ELSE alive
          /\ quiet' = (quiet /\ pid = 0)
          /\ cmdPc' = IF i < Len(services) THEN "startAll"
                      ELSE IF cmd = "start" THEN "serving" ELSE "waiting"
    /\ UNCHANGED <<cmd, waited, lookup, sigPc>>
    /\ UNCHANGED <<services, procPc, procI, savedPids, portsInUse, kills, raised, probes,
                   stopCalls, ensureCalls>>
    /\ UNCHANGED fsVars
    /\ UNCHANGED batchVars
    /\ UNCHANGED measVars
    /\ UNCHANGED cmpVars
    /\ UNCHANGED cliVars

\* waitForServices: a turn of waitForPort(port, 120000) for the port it
\* waits on; once waitForServices has returned, start-measure goes on to
\* the measurement or enters stopAll.
WaitPort(lookupFails, timedOut) ==
    /\ cmdPc = "waiting"
    /\ procPc = "idle"
    /\ LET i == Len(waited) + 1
           port == services[i]
           outcome == waitForPort(isPortInUse(alive, port, lookupFails), timedOut)
           verdict == IF outcome = "again" THEN "next"
                      ELSE waitForServices(outcome = "true", i, Len(services))
           goto == IF verdict = "next" THEN cmdPc ELSE AfterWaitForServices(verdict = "true")
       IN /\ lookup' = Lookup(alive, port, lookupFails)
          /\ waited' = IF outcome = "again" THEN waited
                       ELSE Append(waited, [port |-> port, ready |-> outcome = "true"])
          /\ cmdPc' = goto
          /\ IF goto = "aborting"
             THEN /\ StopAllEnter
                  /\ UNCHANGED <<portsInUse, probes, ensureCalls>>
             ELSE UNCHANGED procVars
    /\ UNCHANGED <<cmd, registryAtStart, startLog, sigPc>>
    /\ UNCHANGED fsVars
    /\ UNCHANGED batchVars
    /\ UNCHANGED measVars
    /\ UNCHANGED cmpVars
    /\ UNCHANGED cliVars

\* start-measure from runMeasurements on: the measurement (which may
\* throw, and then main's catch exits), then saveResults with
\* overridesApplied: true.
MeasureAndSave(sample, throws) ==
    /\ cmdPc = "measure"
    /\ LET options == MeasureOptions(argv, userSettings, externalConfig)
           metrics == [i \in 1 .. options.runs |-> sample]
           call == Len(saved) + 1
           saving == SaveOptions("u", options.runs, ReduceMetrics(metrics), TRUE, "", <<>>, <<>>)
           r == saveResults(summaries, logs, saving, clock, 0, call)
       IN /\ measured' = options
          /\ IF throws
             THEN /\ cmdPc' = "exit1"
                  /\ UNCHANGED <<summaries, logs, saved>>
             ELSE /\ cmdPc' = "done"
                  /\ summaries' = r.summaries
                  /\ logs' = r.logs
                  /\ saved' = Append(saved, [ call |-> call, options |-> saving, at |-> clock,
                                              dirName |-> r.dirName, summary |-> r.summary,
                                              threw |-> r.threw ])
    /\ UNCHANGED <<cmd, registryAtStart, startLog, waited, lookup, sigPc>>
    /\ UNCHANGED <<userSettings, externalConfig, argv>>
    /\ UNCHANGED clock
    /\ UNCHANGED batchVars
    /\ UNCHANGED procVars
    /\ UNCHANGED measVars
    /\ UNCHANGED cmpVars

\* The processes are those that ran when the command began and those it
\* spawns; any of them may end at any time.
StartNext ==
    \/ \E command \in {"start", "start-measure"} : CmdBegin(command)
    \/ \E lookupFails \in BOOLEAN, timedOut \in BOOLEAN : Precheck(lookupFails, timedOut)
    \/ \E lookupFails \in BOOLEAN : EnsureProbe(lookupFails) /\ CmdResume
    \/ StopKill /\ CmdResume
    \/ \E lookupFails \in BOOLEAN, pid \in Pids : StopPort(lookupFails, pid) /\ CmdResume
    \/ StopWait /\ CmdResume
    \/ \E cwdExists \in BOOLEAN, pid \in 0 .. MaxPids : StartService(cwdExists, pid)
    \/ \E lookupFails \in BOOLEAN, timedOut \in BOOLEAN : WaitPort(lookupFails, timedOut)
    \/ \E sample \in {FastSample}, throws \in BOOLEAN : MeasureAndSave(sample, throws)
    \/ \E pid \in Pids : EnvExit(pid) /\ UNCHANGED cmdVars

SpecStart == ProcInit /\ [][StartNext]_vars

\* stopAll alone, called by the stop command or a signal handler, with the
\* lookup of every port of its port phase recorded.
StopNext ==
    \/ StopAllBegin /\ UNCHANGED cmdVars
    \/ StopKill /\ UNCHANGED cmdVars
    \/ \E lookupFails \in BOOLEAN, pid \in Pids :
          /\ StopPort(lookupFails, pid)
          /\ lookup' = Lookup(alive, services[procI], lookupFails)
          /\ UNCHANGED <<cmd, cmdPc, registryAtStart, startLog, waited, sigPc>>
    \/ StopWait /\ UNCHANGED cmdVars
    \/ \E pid \in Pids : EnvExit(pid) /\ UNCHANGED cmdVars
    \/ \E pid \in Pids : EnvSpawn(pid) /\ UNCHANGED cmdVars

SpecStop == ProcInit /\ [][StopNext]_vars

\* ------------------------------------------------------- SIGINT / SIGTERM
\* The process has not exited.
Running == cmdPc \notin {"exit0", "exit1"}

\* process.on('SIGINT' | 'SIGTERM'): the handler starts and reaches its
\* first await, loadConfig().  The signal is taken while start serves or
\* start-measure measures, the phases in which main has no stopAll or
\* ensurePortsFree call of its own in progress.
Signal ==
    /\ sigPc = "none"
    /\ cmdPc \in {"serving", "measure"}
    /\ sigPc' = "loadConfig"
    /\ UNCHANGED <<cmd, cmdPc, registryAtStart, startLog, waited, lookup>>
    /\ UNCHANGED procVars
    /\ UNCHANGED fsVars
    /\ UNCHANGED batchVars
    /\ UNCHANGED measVars
    /\ UNCHANGED cmpVars
    /\ UNCHANGED cliVars

\* The handler after loadConfig(): with the config it enters stopAll(config);
\* loadConfig itself exits with status 1 when the config file is gone or its
\* import fails.
HandlerLoadConfig(loads) ==
    /\ sigPc = "loadConfig"
    /\ Running
    /\ IF loads
       THEN /\ sigPc' = "stopAll"
            /\ cmdPc' = cmdPc
            /\ StopAllEnter
            /\ UNCHANGED <<portsInUse, probes, ensureCalls>>
       ELSE /\ sigPc' = "failed"
            /\ cmdPc' = "exit1"
            /\ UNCHANGED procVars
    /\ UNCHANGED <<cmd, registryAtStart, startLog, waited, lookup>>
    /\ UNCHANGED fsVars
    /\ UNCHANGED batchVars
    /\ UNCHANGED measVars
    /\ UNCHANGED cmpVars
    /\ UNCHANGED cliVars

\* The handler after a step of its stopAll: once stopAll has returned,
\* process.exit(0).
HandlerResume ==
    /\ sigPc' = IF procPc' = "idle" THEN "exited" ELSE sigPc
    /\ cmdPc' = IF procPc' = "idle" THEN "exit0" ELSE cmdPc
    /\ UNCHANGED <<cmd, registryAtStart, startLog, waited, lookup>>

\* A step of the handler's stopAll.
HandlerStopAll ==
    /\ sigPc = "stopAll"
    /\ Running
    /\ \/ StopKill
       \/ \E lookupFails \in BOOLEAN, pid \in Pids : StopPort(lookupFails, pid)
       \/ StopWait
    /\ HandlerResume

\* A service command with a signal taken at some time: main goes on while
\* the handler runs, and the measurement of start-measure may still return
\* or throw (main().catch then exits with status 1).
SignalNext ==
    \/ sigPc = "none" /\ StartNext
    \/ Signal
    \/ \E loads \in BOOLEAN : HandlerLoadConfig(loads)
    \/ HandlerStopAll
    \/ /\ sigPc # "none"
       /\ \E sample \in {FastSample}, throws \in BOOLEAN : MeasureAndSave(sample, throws)
    \/ /\ sigPc # "none"
       /\ \E pid \in Pids : EnvExit(pid) /\ UNCHANGED cmdVars

SpecSignal == ProcInit /\ [][SignalNext]_vars

\* ----------------------------------------------------------------- fairness
\* The measurement of scenario i comes to an end, one way or the other.
Measurement(i) ==
    \/ \E message \in ErrorMessages : MeasureThrow(i, message)
    \/ \E sample \in {FastSample}, failAt \in {0, 2} : MeasureReturn(i, sample, failAt)

\* The event loop runs every continuation that is ready, and every
\* measurement in flight eventually returns or throws.
BatchFairness ==
    /\ WF_vars(BatchStart)
    /\ WF_vars(MainResume)
    /\ WF_vars(\E failAt \in {0, 1} : SaveBatch(failAt))
    /\ \A i \in 1 .. MaxScenarios : WF_vars(Measurement(i))

SpecBatchFair == SpecBatch /\ BatchFairness

\* ------------------------------------------------------------------- claims
\* The scenarios whose runScenario has been called and has not resolved.
InFlight == {i \in DOMAIN task : task[i].state = "measuring"}

\* main has left the scheduling loop.
BatchFinished ==
    \/ mainPc \in {"saving", "done"}
    \/ mainPc = "exit1" /\ DOMAIN batchResult # {}

FailedOutcomes == {n \in DOMAIN batchResult.results : "error" \in DOMAIN batchResult.results[n]}

\* C1: once the batch has finished running its scenarios, completed + failed
\* = totalScenarios = the length of results, for every number of scenarios and
\* every concurrency.
C1_CountersAgree ==
    BatchFinished =>
        /\ batchResult.completed + batchResult.failed = batchResult.totalScenarios
        /\ batchResult.totalScenarios = Len(batchResult.results)

\* A parallel batch of three scenarios has finished with successes and failures.
C1_Witness ==
    /\ mainPc = "done"
    /\ concurrency = 2
    /\ batchResult.totalScenarios = 3
    /\ batchResult.completed >= 1
    /\ batchResult.failed >= 1

\* C2: with concurrency k > 1, in every reachable state at most k scenarios
\* have been started and have not yet resolved.
C2_AtMostKUnresolved == concurrency > 1 => Cardinality(InFlight) <= concurrency

\* Two scenarios are in flight under k = 2 after one has resolved and the
\* third has been admitted in its place.
C2_Witness ==
    /\ concurrency = 2
    /\ Cardinality(InFlight) = 2
    /\ Len(batchResult.results) = 1

\* C3: every throw of runMeasurements is recorded as a failed outcome of its
\* scenario carrying the thrown message and is counted in failed; after a
\* throw the batch goes on (main is about to resume, or awaits a scenario in
\* flight) and finishes only when every scenario has been run to resolution.
C3_FailureIsolated ==
    /\ \A k \in DOMAIN thrown :
         \E n \in DOMAIN batchResult.results :
            /\ batchResult.results[n].scenario = filteredScenarios[thrown[k].index]
            /\ "error" \in DOMAIN batchResult.results[n]
            /\ batchResult.results[n].error = thrown[k].message
    /\ Len(thrown) > 0 =>
         /\ batchResult.failed = Cardinality(FailedOutcomes)
         /\ batchResult.failed >= Len(thrown)
    /\ (Len(thrown) > 0 /\ ~BatchFinished) =>
         \/ mainPc = "resume"
         \/ mainPc \in {"awaitScenario", "awaitRace"} /\ InFlight # {}
    /\ BatchFinished => \A i \in DOMAIN task : task[i].state = "resolved"

\* The first of three scenarios threw, and the two after it were measured and
\* saved before the batch ended.
C3_Witness ==
    /\ mainPc = "done"
    /\ Len(thrown) = 1
    /\ thrown[1].index = 1
    /\ batchResult.totalScenarios = 3
    /\ batchResult.results[1].scenario = filteredScenarios[1]
    /\ batchResult.completed = 2

\* C4: with concurrency 1 a scenario is started only after every scenario
\* declared before it has resolved, so at most one is in flight and the
\* outcomes in results are in declared order.
C4_SequentialInOrder ==
    concurrency = 1 =>
        /\ Cardinality(InFlight) <= 1
        /\ \A i \in DOMAIN task :
             task[i].state # "queued" => \A j \in 1 .. i - 1 : task[j].state = "resolved"
        /\ \A n \in DOMAIN batchResult.results :
             batchResult.results[n].scenario = filteredScenarios[n]

\* The third scenario is in flight after the first failed and the second
\* resolved.
C4_Witness ==
    /\ concurrency = 1
    /\ InFlight = {3}
    /\ Len(batchResult.results) = 2
    /\ "error" \in DOMAIN batchResult.results[1]

\* C5: with concurrency > 1 scenarios are started in the order of the
\* filtered list, whatever the order in which they complete.
C5_AdmissionInQueueOrder ==
    concurrency > 1 =>
        /\ \A n \in DOMAIN admitted : admitted[n] = n
        /\ \A a, b \in DOMAIN task :
             (a < b /\ task[b].state # "queued") =>
                 /\ task[a].state # "queued"
                 /\ task[a].startedAt <= task[b].startedAt

\* All three scenarios were admitted under k = 2 and the second completed
\* before the first.
C5_Witness ==
    /\ concurrency = 2
    /\ Len(admitted) = 3
    /\ Len(batchResult.results) >= 1
    /\ batchResult.results[1].scenario = filteredScenarios[2]

\* C6: for every scenario list and every concurrency the command resolves,
\* when every measurement in flight comes to an end the batch leaves its
\* scheduling loop and saves the BatchResult (exit1 is reached here only from
\* the save's append throwing).
C6_BatchTerminates == <>(mainPc \in {"done", "exit1"})

\* Lines of saveResults call `call` in the log at `path`.
LinesOf(path, call) ==
    IF path \in DOMAIN logs
    THEN Cardinality({n \in DOMAIN logs[path] : logs[path][n].call = call})
    ELSE 0

\* The summary document call s wrote is in its session directory.
SummaryOf(s) ==
    /\ SummaryPath(s.dirName) \in DOMAIN summaries
    /\ summaries[SummaryPath(s.dirName)].call = s.call

\* C7: after saveResults has returned or thrown, the summary document and the
\* entry in every target log are all there, once each, or none of them is.
C7_FanOutAtomic ==
    saved # <<>> =>
        LET s == saved[Len(saved)]
            targets == SeqRange(LogTargets(s.options))
        IN \/ SummaryOf(s) /\ \A p \in targets : LinesOf(p, s.call) = 1
           \/ ~SummaryOf(s) /\ \A p \in targets : LinesOf(p, s.call) = 0

\* C8: a saveResults call that returns has appended exactly one line to the
\* global log, to the log of each of its tags and to the log of its scenario,
\* and none to any other log.
C8_OneLinePerTarget ==
    \A k \in DOMAIN saved :
        ~saved[k].threw =>
            LET targets == SeqRange(LogTargets(saved[k].options))
            IN \A p \in DOMAIN logs \cup targets :
                 LinesOf(p, k) = IF p \in targets THEN 1 ELSE 0

\* C9: the summary document of every saveResults call that returned is still
\* the one that call wrote, whatever calls came after it.
C9_SummaryNeverOverwritten ==
    \A k \in DOMAIN saved : ~saved[k].threw => SummaryOf(saved[k])

\* C10: loadSummary of the session identifier of every saveResults call that
\* returned yields the summary that call wrote.
C10_RoundTrip ==
    \A k \in DOMAIN saved :
        ~saved[k].threw => loadSummary(summaries, saved[k].dirName) = saved[k].summary

\* C11: every log file is append-only: over any saveResults or
\* saveBatchResult call, each log that exists stays, and its content before
\* the call is a prefix of its content after it.
C11_LogsAppendOnly ==
    [][\A p \in DOMAIN logs :
          /\ p \in DOMAIN logs'
          /\ Len(logs'[p]) >= Len(logs[p])
          /\ SubSeq(logs'[p], 1, Len(logs[p])) = logs[p]]_vars

\* The global log holds the lines of two calls: the first call's line was
\* there when the second call appended its own.
C11_Witness ==
    /\ JsonlLogPath \in DOMAIN logs
    /\ Len(logs[JsonlLogPath]) = 2
    /\ logs[JsonlLogPath][1].call = 1
    /\ logs[JsonlLogPath][2].call = 2

\* The clock second of instant `now`.
SecondOf(now) == now \div TicksPerSecond

\* Every saveResults call so far returned, each in a later clock second than
\* the call before it.
SavedAtIncreasingTimestamps ==
    /\ \A k \in DOMAIN saved : ~saved[k].threw
    /\ \A k \in 1 .. Len(saved) - 1 : SecondOf(saved[k].at) < SecondOf(saved[k + 1].at)

\* C12: after saves at increasing timestamps, over plain and tag-prefixed
\* session directories, listResults lists the sessions newest first and
\* showLastResult shows the session saved last.
C12_NewestFirst ==
    (SavedAtIncreasingTimestamps /\ saved # <<>>) =>
        /\ listResults(summaries) = [k \in 1 .. Len(saved) |-> saved[Len(saved) + 1 - k].dirName]
        /\ showLastResult(summaries).lastDir = saved[Len(saved)].dirName

\* The attempts of a stopAll call on the pids of the pid file, in order.
RegistryKills(call) == SelectSeq(call.kills, LAMBDA k : k.phase = "registry")

C14_TeardownIffPortInUse ==
    \A k \in DOMAIN ensureCalls :
        LET call == ensureCalls[k] IN
        /\ call.invoked <=> (\E n \in DOMAIN call.probes : call.probes[n])
        /\ call.declared = <<>> => ~call.invoked

C14_Witness ==
    /\ Len(ensureCalls) = 1
    /\ ensureCalls[1].probes = <<FALSE, TRUE>>
    /\ ensureCalls[1].invoked
    /\ Len(stopCalls) = 1

\* C15: stopAll attempts the kill of every pid of the process registry, in
\* order; a no-such-process error is swallowed, every other kill error
\* reaches the caller of stopAll for its pid, and the registry is cleared.
C15_KillErrorsSurface ==
    \A k \in DOMAIN stopCalls :
        LET call == stopCalls[k]
            tried == RegistryKills(call)
        IN /\ [n \in DOMAIN tried |-> tried[n].pid]
                 = [n \in DOMAIN call.registryBefore |-> call.registryBefore[n].pid]
           /\ \A n \in DOMAIN tried :
                 (tried[n].settled = "rejected")
                     <=> (\E r \in DOMAIN call.raised : call.raised[r].pid = tried[n].pid)
           /\ call.registryAfter = <<>>

\* The last event of the engine's history says that an audit threw.
LastAuditThrew(call) ==
    /\ call.audits # <<>>
    /\ call.audits[Len(call.audits)].ev = "end"
    /\ call.audits[Len(call.audits)].sample = JsonNull

\* C16: the browser a runMeasurements call launched is closed when the call
\* settles, after a return and after a throw of an override step or of an
\* audit alike, and a call whose audit threw rejects with that audit's error.
C16_BrowserClosedOnExit ==
    /\ mPc = "idle" => openBrowsers = {}
    /\ \A k \in DOMAIN mCalls :
          LET call == mCalls[k] IN
          /\ call.browser # 0 => ~call.leftOpen
          /\ LastAuditThrew(call) =>
                /\ call.outcome.kind = "throw"
                /\ call.outcome.error
                     = [step |-> "audit", run |-> call.audits[Len(call.audits)].run]

C16_Witness ==
    \E k \in DOMAIN mCalls :
        /\ mCalls[k].browser # 0
        /\ mCalls[k].outcome.kind = "throw"
        /\ mCalls[k].outcome.error = [step |-> "audit", run |-> 2]
        /\ ~mCalls[k].leftOpen
        /\ mPc = "idle"

\* The engine history of `runs` audits made one after another on browser b
\* that yielded `samples`.
AuditsInOrder(runs, b, samples) ==
    [n \in 1 .. 2 * runs |->
        [ ev |-> IF n % 2 = 1 THEN "start" ELSE "end",
          run |-> (n + 1) \div 2,
          browser |-> b,
          sample |-> IF n % 2 = 1 THEN JsonNull ELSE samples[n \div 2] ]]

\* C17: a runMeasurements call with runs >= 1 that returns has made exactly
\* `runs` audits, each started after the one before it ended, in the order
\* 1..runs, all on its own browser, and returns their samples in that order.
C17_RunsInOrder ==
    \A k \in DOMAIN mCalls :
        LET call == mCalls[k] IN
        (call.options.runs >= 1 /\ call.outcome.kind = "return") =>
            /\ Len(call.outcome.value.metrics) = call.options.runs
            /\ call.audits
                 = AuditsInOrder(call.options.runs, call.browser, call.outcome.value.metrics)

C17_Witness ==
    /\ mCalls # <<>>
    /\ mCalls[1].browser = 2
    /\ mCalls[1].options.runs = 2
    /\ mCalls[1].outcome.kind = "return"
    /\ mCalls[1].outcome.value.metrics = <<SlowSample, FastSample>>

MetricNames == {"score", "fcp", "lcp", "tbt", "cls", "si"}

\* C18: for runs >= 1 each of the six averages is the arithmetic mean of its
\* field over the returned samples: average * count = sum.
C18_AveragesAreMeans ==
    \A k \in DOMAIN mCalls :
        LET call == mCalls[k]
            value == call.outcome.value
        IN (call.options.runs >= 1 /\ call.outcome.kind = "return") =>
               \A f \in MetricNames :
                   /\ value.averages[f].k = "num"
                   /\ value.averages[f].d > 0
                   /\ value.averages[f].n * Len(value.metrics)
                        = SumSeq(Field(value.metrics, f)) * value.averages[f].d

C18_Witness ==
    \E k \in DOMAIN mCalls :
        /\ mCalls[k].outcome.kind = "return"
        /\ mCalls[k].outcome.value.metrics = <<FastSample, SlowSample>>
        /\ mCalls[k].outcome.value.averages.score = Num(70)
        /\ mCalls[k].outcome.value.averages.cls = [k |-> "num", n |-> 1, d |-> 2]

\* C19: a runMeasurements call with runs = 0 that returns has made no audit
\* and returns no sample and the average 0 in each of the six fields.
C19_ZeroRuns ==
    \A k \in DOMAIN mCalls :
        LET call == mCalls[k] IN
        (call.options.runs = 0 /\ call.outcome.kind = "return") =>
            /\ call.audits = <<>>
            /\ call.outcome.value.metrics = <<>>
            /\ \A f \in MetricNames : call.outcome.value.averages[f] = Num(0)

C19_Witness ==
    \E k \in DOMAIN mCalls :
        /\ mCalls[k].options.runs = 0
        /\ mCalls[k].options.applyOverrides
        /\ mCalls[k].options.configOverrides
        /\ mCalls[k].outcome.kind = "return"
        /\ mCalls[k].browser # 0

\* C20: compareResults gives every metric diff = after - before and the
\* improved flag of its polarity: after > before for the score, after < before
\* for fcp, lcp, tbt, cls and si.
C20_ComparePolarity ==
    compared.result.loaded =>
        LET before == loadSummary(summaries, compared.path1).averages
            after == loadSummary(summaries, compared.path2).averages
            cs == compared.result.comparisons
        IN /\ Len(cs) = 6
           /\ {cs[i].metric : i \in DOMAIN cs} = MetricNames
           /\ \A i \in DOMAIN cs :
                 LET f == cs[i].metric
                     a == after[f]
                     b == before[f]
                 IN /\ cs[i].before = b
                    /\ cs[i].after = a
                    /\ cs[i].diff.k = "num"
                    /\ cs[i].diff.d > 0
                    /\ cs[i].diff.n * a.d * b.d = (a.n * b.d - b.n * a.d) * cs[i].diff.d
                    /\ cs[i].improved <=> IF f = "score" THEN a.n * b.d > b.n * a.d
                                          ELSE a.n * b.d < b.n * a.d

C20_Witness ==
    /\ compared.result.loaded
    /\ compared.path1 = <<"0", "0">>
    /\ compared.path2 = <<"0", "1">>
    /\ compared.result.comparisons[1].metric = "score"
    /\ compared.result.comparisons[1].before = Num(75)
    /\ compared.result.comparisons[1].after = Num(85)
    /\ compared.result.comparisons[1].diff = Num(10)
    /\ compared.result.comparisons[1].improved
    /\ compared.result.comparisons[2].metric = "fcp"
    /\ compared.result.comparisons[2].before = Num(1500)
    /\ compared.result.comparisons[2].after = Num(1200)
    /\ compared.result.comparisons[2].diff = Num(-300)
    /\ compared.result.comparisons[2].improved
    /\ ~compared.result.comparisons[4].improved

\* C21: when one of the two summaries is missing or is not JSON, compareResults
\* names the first path that did not load and prints no comparison; no call,
\* failed or not, changes a summary, a log or the process registry.
C21_CompareFailsCleanly ==
    /\ [](compared # NoComparison =>
            LET first == loadSummary(summaries, compared.path1)
                second == loadSummary(summaries, compared.path2)
            IN /\ compared.result.loaded <=> (first # JsonNull /\ second # JsonNull)
               /\ ~compared.result.loaded =>
                     /\ compared.result.comparisons = <<>>
                     /\ compared.result.missing
                          = IF first = JsonNull THEN compared.path1 ELSE compared.path2)
    /\ [][summaries' = summaries /\ logs' = logs /\ registry' = registry]_vars

C21_Witness ==
    /\ compared.path1 = <<"0", "0">>
    /\ compared.path2 = <<"0", "2">>
    /\ ~compared.result.loaded
    /\ compared.result.missing = <<"0", "2">>
    /\ SummaryPath(<<"0", "2">>) \in DOMAIN summaries

\* C24: with concurrency C > 1, whenever main waits on Promise.race the queue
\* is empty or exactly C scenarios are in flight; and when main resumes with
\* a scenario resolved and the queue not empty, it admits the head of the
\* queue before it waits again.
C24_WorkConserving ==
    /\ []((concurrency > 1 /\ mainPc = "awaitRace") =>
            \/ queue = <<>>
            \/ Len(running) = concurrency /\ SeqRange(running) = InFlight)
    /\ [][(concurrency > 1 /\ mainPc = "resume" /\ queue # <<>>) =>
            /\ Len(admitted') > Len(admitted)
            /\ admitted'[Len(admitted) + 1] = Head(queue)
            /\ mainPc' = "awaitRace"]_vars

C24_Witness ==
    /\ concurrency = 2
    /\ mainPc = "awaitRace"
    /\ queue = <<>>
    /\ admitted = <<1, 2, 3>>
    /\ Len(running) = 2
    /\ Len(batchResult.results) = 1

\* The lines of the main batch log.
BatchLines == IF BatchLogPath \in DOMAIN logs THEN logs[BatchLogPath] ELSE <<>>

AllResolved == \A i \in DOMAIN task : task[i].state = "resolved"

\* C25: completedAt and duration are set, and the BatchResult is appended to
\* the main batch log, only when every scenario of the batch has resolved;
\* the log gets at most one line per batch, and exactly one when the command
\* ends normally.
C25_FinalizedAfterAll ==
    /\ (DOMAIN batchResult # {} /\ batchResult.completedAt # EmptyIso) =>
          /\ AllResolved
          /\ Len(batchResult.results) = batchResult.totalScenarios
    /\ (DOMAIN batchResult # {} /\ batchResult.completedAt = EmptyIso) =>
          /\ batchResult.duration = 0
          /\ BatchLines = <<>>
    /\ Len(BatchLines) <= 1
    /\ BatchLines # <<>> =>
          /\ AllResolved
          /\ BatchLines[1].entry.completedAt # EmptyIso
          /\ Len(BatchLines[1].entry.results) = Len(filteredScenarios)
    /\ mainPc = "done" => Len(BatchLines) = 1

C25_Witness ==
    /\ mainPc = "done"
    /\ concurrency = 2
    /\ Len(BatchLines) = 1
    /\ Len(BatchLines[1].entry.results) = 3
    /\ BatchLines[1].entry.completedAt > BatchLines[1].entry.startedAt
    /\ BatchLines[1].entry.failed = 1

\* C26: from the start of the batch on, completed + failed = the length of
\* results = the number of scenarios resolved so far, which is at most
\* totalScenarios.
C26_CountersIncremental ==
    DOMAIN batchResult # {} =>
        LET resolved == Cardinality({i \in DOMAIN task : task[i].state = "resolved"}) IN
        /\ batchResult.completed + batchResult.failed = Len(batchResult.results)
        /\ Len(batchResult.results) = resolved
        /\ resolved <= batchResult.totalScenarios
        /\ batchResult.completed
             = Len(batchResult.results) - Cardinality(FailedOutcomes)

C26_Witness ==
    /\ mainPc = "awaitRace"
    /\ batchResult.totalScenarios = 3
    /\ batchResult.completed = 1
    /\ batchResult.failed = 1
    /\ Cardinality(InFlight) = 1

\* C23: with an external config loaded, the measure command without a url
\* (resp. without --runs) uses the config's defaultUrl (resp. defaultRuns)
\* when the settings file sets none, and the settings file's value when it
\* sets one.
C23_ConfigDefaultsUsed ==
    (measured.runs # 0 /\ externalConfig.loaded) =>
        /\ (argv.url = "" /\ externalConfig.defaultUrl # "") =>
              measured.url = IF "defaultUrl" \in DOMAIN userSettings /\ userSettings.defaultUrl # ""
                             THEN userSettings.defaultUrl
                             ELSE externalConfig.defaultUrl
        /\ (~argv.runsGiven /\ externalConfig.defaultRuns # 0) =>
              measured.runs = IF "defaultRuns" \in DOMAIN userSettings /\ userSettings.defaultRuns # 0
                              THEN userSettings.defaultRuns
                              ELSE externalConfig.defaultRuns

\* C22: isPortInUse never throws: the answer of every lookup waitForPort
\* made is true exactly when the lookup did not fail and returned a
\* non-empty list of owners; an empty list and a failed lookup answer false.
C22_PortLookupTotal ==
    /\ lookup.answer \in BOOLEAN
    /\ lookup.answer = (~lookup.failed /\ lookup.owners # {})

\* A failed lookup of a port a process holds was answered "not in use".
C22_Witness ==
    /\ lookup.failed
    /\ FindOnPort(alive, lookup.port) # {}
    /\ ~lookup.answer

\* The entries startAllServices pushed: one for each service whose working
\* directory exists and whose spawn returned a pid.
StartedEntries(log) ==
    LET ok == SelectSeq(log, LAMBDA e : e.cwdExists /\ e.pid # 0)
    IN [n \in 1 .. Len(ok) |-> [name |-> "svc", port |-> ok[n].port, pid |-> ok[n].pid]]

\* startAllServices has returned and stopAll has not run since.
StartedAll ==
    /\ cmdPc \in {"serving", "waiting", "measure", "done"}
    /\ Len(startLog) = Len(services)
    /\ services # <<>>

\* C27 (as stated): after ensurePortsFree and startAllServices the registry
\* holds no two entries for the same declared port.
C27_NoDuplicateInstances ==
    StartedAll =>
        \A m \in DOMAIN registry, n \in DOMAIN registry :
            registry[m].port = registry[n].port => m = n

\* waitForServices returned false.
WaitFailed == waited # <<>> /\ ~waited[Len(waited)].ready

\* C28: when waitForServices returned false in start-measure, the command
\* enters stopAll and exits with status 1 once it has returned: stopAll was
\* called on the registry startAllServices left and emptied it, no
\* measurement was run and no summary was saved.
C28_StartMeasureAborts ==
    WaitFailed =>
        /\ cmdPc \in {"aborting", "exit1"}
        /\ measured.runs = 0
        /\ summaries = <<>>
        /\ saved = <<>>
        /\ cmdPc = "exit1" =>
              /\ stopCalls # <<>>
              /\ stopCalls[Len(stopCalls)].registryBefore
                     = registryAtStart \o StartedEntries(startLog)
              /\ registry = <<>>

\* The first service was started and answered, the second did not, and
\* the command has exited after the teardown.
C28_Witness ==
    /\ cmdPc = "exit1"
    /\ Len(waited) = 2
    /\ waited[1].ready
    /\ ~waited[2].ready
    /\ startLog[1].pid # 0

\* C29: waitForServices waits on the declared ports in declared order, one
\* at a time; a port not observed in use is the last one it waits on and
\* probes, and makes it return false; it returns true only when every
\* declared port was observed in use.
C29_WaitSequentialFailFast ==
    /\ Len(waited) <= Len(services)
    /\ \A n \in DOMAIN waited :
          /\ waited[n].port = services[n]
          /\ ~waited[n].ready => n = Len(waited)
    /\ WaitFailed =>
          /\ cmdPc \in {"aborting", "exit1"}
          /\ lookup.port = waited[Len(waited)].port
    /\ (cmdPc \in {"measure", "done"} /\ waited # <<>>) =>
          /\ Len(waited) = Len(services)
          /\ \A n \in DOMAIN waited : waited[n].ready

\* Of two declared ports the first timed out and the second was never
\* waited on.
C29_Witness ==
    /\ Len(services) = 2
    /\ waited = <<[port |-> services[1], ready |-> FALSE]>>
    /\ cmdPc = "exit1"

\* C30: from the first service startAllServices handles until stopAll next
\* runs, the pid file is what it was when startAllServices was entered
\* followed by the entries of the services started so far, in declared
\* order; every declared service is handled, whatever happened to the
\* ones before it.
C30_RegistryAppended ==
    /\ \A n \in DOMAIN startLog : startLog[n].port = services[n]
    /\ cmdPc \in {"startAll", "serving", "waiting", "measure", "done"} /\ startLog # <<>> =>
          registry = registryAtStart \o StartedEntries(startLog)
    /\ cmdPc \in {"serving", "waiting"} => Len(startLog) = Len(services)

\* The pid file held entries, the first service's directory was missing
\* and the second service was started all the same.
C30_Witness ==
    /\ cmdPc = "serving"
    /\ registryAtStart # <<>>
    /\ Len(startLog) = 2
    /\ ~startLog[1].cwdExists
    /\ startLog[2].pid # 0
    /\ Len(registry) = Len(registryAtStart) + 1

\* Port `port` was observed in use during this invocation: by the first
\* check of start-measure or by waitForServices.
ObservedInUse(port) ==
    \/ \E n \in DOMAIN waited : waited[n].port = port /\ waited[n].ready
    \/ waited = <<>> /\ lookup.port = port /\ lookup.answer

\* C40 (as stated): when start-measure measures, every declared service's
\* port has been observed in use during the invocation.
C40_MeasuresAfterAllObserved ==
    (cmd = "start-measure" /\ cmdPc \in {"measure", "done"}) =>
        \A n \in DOMAIN services : ObservedInUse(services[n])

\* The call whose histories the state holds has settled.
CallSettled ==
    /\ mPc = "idle"
    /\ mCalls # <<>>
    /\ mCalls[1].options = mOptions
    /\ mCalls[1].browser = mBrowser

\* The audits of the running call that were started, and those that ended
\* with a sample.
AuditsStarted == Len(SelectSeq(auditLog, LAMBDA e : e.ev = "start"))
AuditsEnded == Len(SelectSeq(auditLog, LAMBDA e : e.ev = "end" /\ e.sample # JsonNull))

\* C32: the k-th pause of a runMeasurements call begins after run k has
\* ended and before run k+1 starts, with k < runs; no audit runs during a
\* pause; a call with runs = n >= 1 that returns has paused n - 1 times.
C32_PausesBetweenRuns ==
    /\ \A k \in DOMAIN pauses : pauses[k] = k /\ k < mOptions.runs
    /\ Len(pauses) <= AuditsEnded
    /\ AuditsStarted <= Len(pauses) + 1
    /\ mPc = "pause" => AuditsStarted = Len(pauses) /\ AuditsEnded = Len(pauses)
    /\ (CallSettled /\ mCalls[1].outcome.kind = "return" /\ mOptions.runs >= 1) =>
          Len(pauses) = mOptions.runs - 1

\* Two runs were made with one pause between them.
C32_Witness ==
    /\ CallSettled
    /\ mCalls[1].outcome.kind = "return"
    /\ mOptions.runs = 2
    /\ pauses = <<1>>
    /\ AuditsEnded = 2

\* config.applyOverrides was called and threw.
OverrideFunctionThrew ==
    \E n \in DOMAIN overrideLog :
        overrideLog[n] = [step |-> "applyCustomOverrides", threw |-> TRUE]

\* C33: an error of the override function never is the call's error; after
\* it the page is closed and the call makes its audits: it returns `runs`
\* samples unless page.close or an audit throws.  With applyOverrides
\* requested and no override function no page is opened and the call
\* returns `runs` samples unless an audit throws.
C33_OverrideNeverAborts ==
    /\ mPending.error.step # "applyCustomOverrides"
    /\ OverrideFunctionThrew =>
          /\ mPc # "override" =>
                \E n \in DOMAIN overrideLog : overrideLog[n].step = "pageClose"
          /\ CallSettled =>
                \/ /\ mCalls[1].outcome.kind = "return"
                   /\ Len(mCalls[1].outcome.value.metrics) = mOptions.runs
                \/ /\ mCalls[1].outcome.kind = "throw"
                   /\ mCalls[1].outcome.error.step \in {"pageClose", "audit"}
    /\ (mOptions.applyOverrides /\ ~mOptions.configOverrides) =>
          /\ overrideLog = <<>>
          /\ (CallSettled /\ mBrowser # 0) =>
                \/ /\ mCalls[1].outcome.kind = "return"
                   /\ Len(mCalls[1].outcome.value.metrics) = mOptions.runs
                \/ /\ mCalls[1].outcome.kind = "throw"
                   /\ mCalls[1].outcome.error.step = "audit"

\* The override function threw, the page was closed and both audits ran.
C33_Witness ==
    /\ CallSettled
    /\ OverrideFunctionThrew
    /\ overrideLog[Len(overrideLog)] = [step |-> "pageClose", threw |-> FALSE]
    /\ mCalls[1].outcome.kind = "return"
    /\ mOptions.runs = 2
    /\ Len(mCalls[1].outcome.value.metrics) = 2

\* C35 (as stated): a saved summary says overridesApplied only when the
\* override function was called in that session and did not throw.
C35_OverridesAppliedIsTrue ==
    \A k \in DOMAIN saved :
        (CallSettled /\ saved[k].call = mBrowser /\ saved[k].summary.overridesApplied) =>
            \E n \in DOMAIN overrideLog :
                overrideLog[n] = [step |-> "applyCustomOverrides", threw |-> FALSE]

\* a <= b for the numbers of the model, +Infinity and -Infinity included.
NumLeq(a, b) == a.n * b.d <= b.n * a.d \/ (a.k = "inf" /\ a.n < 0) \/ (b.k = "inf" /\ b.n > 0)

\* C37 (as stated): minScore and maxScore of a returned result are members
\* of its raw scores, bound every raw score, and bound the average score.
C37_RangeFromRawScores ==
    (mCalls # <<>> /\ mCalls[1].outcome.kind = "return") =>
        LET value == mCalls[1].outcome.value
            scores == {Num(value.metrics[i].score) : i \in DOMAIN value.metrics}
        IN /\ value.minScore \in scores
           /\ value.maxScore \in scores
           /\ \A x \in scores : NumLeq(value.minScore, x) /\ NumLeq(x, value.maxScore)
           /\ value.minScore.k = "num" /\ value.maxScore.k = "num"
           /\ NumLeq(value.minScore, value.averages.score)
           /\ NumLeq(value.averages.score, value.maxScore)

\* The saveResults calls made for the scenario of an outcome.
SavesOf(outcome) ==
    {k \in DOMAIN saved : saved[k].options.scenarioId = outcome.scenario.id}

\* C38 (as stated): when the batch has finished, a scenario with a success
\* outcome has one line in the global log and its session summary, and a
\* scenario with a failed outcome has no session summary and no line in
\* any log.
C38_OutcomesAgreeWithLog ==
    BatchFinished =>
        \A n \in DOMAIN batchResult.results :
            LET outcome == batchResult.results[n] IN
            IF "summary" \in DOMAIN outcome
            THEN /\ Cardinality(SavesOf(outcome)) = 1
                 /\ \A k \in SavesOf(outcome) :
                       /\ LinesOf(JsonlLogPath, saved[k].call) = 1
                       /\ SummaryOf(saved[k])
            ELSE \A k \in SavesOf(outcome) :
                       /\ ~SummaryOf(saved[k])
                       /\ \A path \in DOMAIN logs : LinesOf(path, saved[k].call) = 0

\* The scenario ids of the success outcomes, in the order of results.
SuccessIds ==
    LET ok == SelectSeq(batchResult.results, LAMBDA o : "summary" \in DOMAIN o)
    IN [n \in DOMAIN ok |-> ok[n].scenario.id]

\* The scenario ids of the lines of the global log that belong to
\* scenarios with a success outcome, in the order of the log.
LoggedSuccessIds ==
    LET all == IF JsonlLogPath \in DOMAIN logs THEN logs[JsonlLogPath] ELSE <<>>
        ok == SelectSeq(all, LAMBDA l : l.entry.scenarioId \in SeqRange(SuccessIds))
    IN [n \in DOMAIN ok |-> ok[n].entry.scenarioId]

\* C39: at every moment of a batch the success outcomes of
\* batchResult.results are in the order in which their scenarios' lines were
\* appended to the global log.
C39_OutcomeOrderIsLogOrder ==
    DOMAIN batchResult # {} => SuccessIds = LoggedSuccessIds

\* With two scenarios in flight the second one finished first, and both
\* were saved.
C39_Witness ==
    /\ mainPc = "done"
    /\ concurrency >= 2
    /\ Len(SuccessIds) >= 2
    /\ SuccessIds[1] = <<"s", "2">>
    /\ SuccessIds[2] = <<"s", "1">>

\* C31: in the port phase of stopAll, for every declared port in turn: when
\* the lookup returns processes that hold the port, a kill is issued to one
\* of them, whether the pid file named it or not; when it returns none, no
\* kill is issued; and whatever the kill's outcome, stopAll goes on to the
\* next declared port, or to the waits after the last one.
C31_PortPhaseIndependent ==
    [][ (procPc = "ports" /\ <<procPc, procI>>' # <<procPc, procI>>) =>
           /\ lookup'.port = services[procI]
           /\ lookup'.owners # {} =>
                 /\ Len(kills') = Len(kills) + 1
                 /\ kills'[Len(kills')].phase = "port"
                 /\ kills'[Len(kills')].pid \in lookup'.owners
           /\ lookup'.owners = {} => kills' = kills
           /\ IF procI < Len(services)
              THEN procPc' = "ports" /\ procI' = procI + 1
              ELSE procPc' = "wait" ]_vars

\* With an empty pid file, the kill of the process on the first port was
\* rejected and the process on the second port was killed all the same.
C31_Witness ==
    \E k \in DOMAIN stopCalls :
        LET call == stopCalls[k] IN
        /\ call.registryBefore = <<>>
        /\ Len(call.kills) = 2
        /\ call.kills[1].phase = "port"
        /\ call.kills[1].settled = "rejected"
        /\ call.kills[2].phase = "port"
        /\ call.kills[2].settled = "resolved"

\* C36: once SIGINT or SIGTERM has been taken (and the handler's loadConfig
\* has not failed), the process exits only with status 0 and only after the
\* handler's stopAll has run to completion: its kills issued, the pid file
\* cleared, every declared port waited on.
C36_TeardownBeforeExit ==
    (sigPc \notin {"none", "failed"} /\ ~Running) =>
        /\ cmdPc = "exit0"
        /\ sigPc = "exited"
        /\ procPc = "idle"
        /\ registry = <<>>

\* The handler's stopAll has run to completion, with kills, and the process
\* exited with 0.
HandlerExitedClean == cmdPc = "exit0" /\ sigPc = "exited" /\ procPc = "idle" /\ kills # <<>>

\* The scenarios whose runMeasurements call holds a browser that is open.
Holders(b) == {i \in InFlight : browserOf[i] = b}

\* C34: every browser belongs to one runMeasurements invocation: no browser
\* was handed to two scenarios, every open browser is held by exactly one
\* scenario in flight, and so the open browsers are no more than the
\* scenarios in flight, and no more than the concurrency bound (when it is
\* at least 1).
C34_BrowserPrivatelyOwned ==
    /\ \A i, j \in DOMAIN browserOf :
          browserOf[i] # 0 /\ browserOf[i] = browserOf[j] => i = j
    /\ \A b \in openBrowsers : Cardinality(Holders(b)) = 1
    /\ \A i \in InFlight : browserOf[i] # 0 => browserOf[i] \in openBrowsers
    /\ Cardinality(openBrowsers) <= Cardinality(InFlight)
    /\ concurrency >= 1 => Cardinality(openBrowsers) <= concurrency

\* Two scenarios are measured at once, each with its browser, after an
\* earlier scenario of the batch has settled and its browser was closed.
C34_Witness ==
    /\ concurrency = 2
    /\ Cardinality(InFlight) = 2
    /\ Cardinality(openBrowsers) = 2
    /\ browsersLaunched = 3
    /\ \E i \in DOMAIN task : task[i].state = "resolved" /\ browserOf[i] \notin openBrowsers

====
